---- MODULE Spec2Model ----
(***************************************************************************)
(* The SSRF guard of mcp_server_fetch (src/src/fetch/src/mcp_server_fetch/ *)
(* server.py): the IP classifier, the obfuscated-IP decoder, the URL       *)
(* validator, the rebinding-resistant transport and fetch_url.             *)
(*                                                                         *)
(* Host names, IP literals and URLs are strings; they are read character   *)
(* by character with Len and SubSeq.  The standard library's ipaddress     *)
(* module is modelled as CPython 3.11 implements it.                       *)
(***************************************************************************)
EXTENDS Integers, Sequences, FiniteSets, TLC

(***************************************************************************)
(* Strings: the str methods the code uses.                                 *)
(***************************************************************************)
Ch(s, i) == SubSeq(s, i, i)

DigitChars == {"0", "1", "2", "3", "4", "5", "6", "7", "8", "9"}

HexLowerChars == {"a", "b", "c", "d", "e", "f"}

HexUpperChars == {"A", "B", "C", "D", "E", "F"}

HexChars == DigitChars \cup HexLowerChars \cup HexUpperChars

\* int() of one digit character
DigitVal(c) ==
  CASE c = "0" -> 0 [] c = "1" -> 1 [] c = "2" -> 2 [] c = "3" -> 3
    [] c = "4" -> 4 [] c = "5" -> 5 [] c = "6" -> 6 [] c = "7" -> 7
    [] c = "8" -> 8 [] c = "9" -> 9
    [] c \in {"a", "A"} -> 10 [] c \in {"b", "B"} -> 11
    [] c \in {"c", "C"} -> 12 [] c \in {"d", "D"} -> 13
    [] c \in {"e", "E"} -> 14 [] c \in {"f", "F"} -> 15

\* the character of one digit value, as '%x' and '%d' print it
DigitChar(n) ==
  CASE n = 0 -> "0" [] n = 1 -> "1" [] n = 2 -> "2" [] n = 3 -> "3"
    [] n = 4 -> "4" [] n = 5 -> "5" [] n = 6 -> "6" [] n = 7 -> "7"
    [] n = 8 -> "8" [] n = 9 -> "9" [] n = 10 -> "a" [] n = 11 -> "b"
    [] n = 12 -> "c" [] n = 13 -> "d" [] n = 14 -> "e" [] n = 15 -> "f"

\* str.lower() of one character
LowerChar(c) ==
  CASE c = "A" -> "a" [] c = "B" -> "b" [] c = "C" -> "c" [] c = "D" -> "d"
    [] c = "E" -> "e" [] c = "F" -> "f" [] c = "G" -> "g" [] c = "H" -> "h"
    [] c = "I" -> "i" [] c = "J" -> "j" [] c = "K" -> "k" [] c = "L" -> "l"
    [] c = "M" -> "m" [] c = "N" -> "n" [] c = "O" -> "o" [] c = "P" -> "p"
    [] c = "Q" -> "q" [] c = "R" -> "r" [] c = "S" -> "s" [] c = "T" -> "t"
    [] c = "U" -> "u" [] c = "V" -> "v" [] c = "W" -> "w" [] c = "X" -> "x"
    [] c = "Y" -> "y" [] c = "Z" -> "z" [] OTHER -> c

RECURSIVE lower(_)
lower(s) ==
  IF Len(s) = 0 THEN "" ELSE LowerChar(Ch(s, 1)) \o lower(SubSeq(s, 2, Len(s)))

\* str.isdigit(), for ASCII text
isdigit(s) == Len(s) > 0 /\ \A i \in 1..Len(s) : Ch(s, i) \in DigitChars

startswith(s, p) == Len(s) >= Len(p) /\ SubSeq(s, 1, Len(p)) = p

endswith(s, p) == Len(s) >= Len(p) /\ SubSeq(s, Len(s) - Len(p) + 1, Len(s)) = p

\* c in s, for one character c
contains(s, c) == \E i \in 1..Len(s) : Ch(s, i) = c

\* str.find(c) + 1: the place of the first c in s, 0 when there is none
find(s, c) ==
  IF contains(s, c) THEN CHOOSE i \in 1..Len(s) :
                           Ch(s, i) = c /\ \A j \in 1..(i - 1) : Ch(s, j) # c
  ELSE 0

\* str.rfind(c) + 1
rfind(s, c) ==
  IF contains(s, c) THEN CHOOSE i \in 1..Len(s) :
                           Ch(s, i) = c /\ \A j \in (i + 1)..Len(s) : Ch(s, j) # c
  ELSE 0

\* str.split(c): the pieces of s between the occurrences of c
RECURSIVE split(_, _)
split(s, c) ==
  IF find(s, c) = 0 THEN <<s>>
  ELSE <<SubSeq(s, 1, find(s, c) - 1)>> \o split(SubSeq(s, find(s, c) + 1, Len(s)), c)

\* str.rstrip(c)
RECURSIVE rstrip(_, _)
rstrip(s, c) ==
  IF Len(s) > 0 /\ Ch(s, Len(s)) = c THEN rstrip(SubSeq(s, 1, Len(s) - 1), c) ELSE s

RECURSIVE lstrip(_, _)
lstrip(s, c) ==
  IF Len(s) > 0 /\ Ch(s, 1) = c THEN lstrip(SubSeq(s, 2, Len(s)), c) ELSE s

\* str.strip(): whitespace off both ends
strip(s) == rstrip(lstrip(s, " "), " ")

(***************************************************************************)
(* Integers of up to 32 bits are kept as two 16-bit halves <<hi, lo>>, so  *)
(* that 0xFFFFFFFF is representable; TooBig stands for every value above   *)
(* 0xFFFFFFFF and ValueError for text int() refuses.                       *)
(***************************************************************************)
Half == 65536

TooBig == <<-1, -1>>

ValueError == <<-2, -2>>

\* acc * base + d
MulAdd(acc, base, d) ==
  IF acc = TooBig THEN TooBig
  ELSE LET t  == acc[2] * base + d
           hi == acc[1] * base + (t \div Half)
       IN  IF hi >= Half THEN TooBig ELSE <<hi, t % Half>>

RECURSIVE IntDigits(_, _, _)
IntDigits(s, base, acc) ==
  IF Len(s) = 0 THEN acc
  ELSE IntDigits(SubSeq(s, 2, Len(s)), base, MulAdd(acc, base, DigitVal(Ch(s, 1))))

\* int(s, base) of unsigned digit text
IntOfDigits(s, base) ==
  IF Len(s) = 0 \/ \E i \in 1..Len(s) :
                     Ch(s, i) \notin HexChars \/ DigitVal(Ch(s, i)) >= base
  THEN ValueError
  ELSE IntDigits(s, base, <<0, 0>>)

\* int(s, 16): an optional 0x prefix, then hex digits
IntBase16(s) ==
  IF startswith(lower(s), "0x") THEN IntOfDigits(SubSeq(s, 3, Len(s)), 16)
  ELSE IntOfDigits(s, 16)

IsInt(v) == v # ValueError

\* a value below zero
Negative == <<-3, -3>>

\* -n, as far as the range checks tell it apart: an error, zero, or below zero
Minus(n) == IF n = ValueError \/ n = <<0, 0>> THEN n ELSE Negative

\* int(s): an optional sign, then decimal digits
IntBase10(s) ==
  IF startswith(s, "+") THEN IntOfDigits(SubSeq(s, 2, Len(s)), 10)
  ELSE IF startswith(s, "-") THEN Minus(IntOfDigits(SubSeq(s, 2, Len(s)), 10))
  ELSE IntOfDigits(s, 10)

\* 0 <= v <= 0xFFFFFFFF
InRange32(v) == v # ValueError /\ v # TooBig /\ v # Negative

\* 0 <= v <= 255
InRange8(v) == InRange32(v) /\ v[1] = 0 /\ v[2] <= 255

\* '%d' % n and '%x' % n
RECURSIVE IntToStr(_, _)
IntToStr(n, base) ==
  IF n < base THEN DigitChar(n)
  ELSE IntToStr(n \div base, base) \o DigitChar(n % base)

(***************************************************************************)
(* The standard library's ipaddress module (CPython 3.11), as far as       *)
(* server.py uses it: ip_address(), str(), the is_* properties and         *)
(* ipv4_mapped.  An IPv4 address is [v |-> 4, o |-> its four octets], an   *)
(* IPv6 address [v |-> 6, h |-> its eight hextets]; NoAddr stands for the  *)
(* ValueError ip_address() raises.  Scope ids (%zone) are outside the      *)
(* alphabet of the inputs.                                                 *)
(***************************************************************************)
NoAddr == [v |-> 0]

\* IPv4Address._parse_octet: decimal digits, at most 3, no leading zero, <= 255
OctetOfInt(n) == IF InRange8(n) THEN n[2] ELSE -1

ParseOctet(s) ==
  IF ~isdigit(s) \/ Len(s) > 3 \/ (s # "0" /\ Ch(s, 1) = "0") THEN -1
  ELSE OctetOfInt(IntOfDigits(s, 10))

\* int.from_bytes(map(_parse_octet, octets)): four octets, each valid
IPv4OfOctets(o) ==
  IF Len(o) # 4 \/ \E i \in 1..Len(o) : o[i] = -1 THEN NoAddr
  ELSE [v |-> 4, o |-> o]

ParseOctets(parts) == [i \in 1..Len(parts) |-> ParseOctet(parts[i])]

\* IPv4Address(s)
IPv4Address(s) == IPv4OfOctets(ParseOctets(split(s, ".")))

\* IPv6Address._parse_hextet: 1 to 4 hex digits
ParseHextet(s) ==
  IF Len(s) = 0 \/ Len(s) > 4 \/ \E i \in 1..Len(s) : Ch(s, i) \notin HexChars THEN -1
  ELSE IntOfDigits(s, 16)[2]

\* an IPv4-style suffix v4 turned into two hextets
WithV4Suffix(parts, v4) ==
  IF v4 = NoAddr THEN <<>>
  ELSE SubSeq(parts, 1, Len(parts) - 1)
         \o <<IntToStr(v4.o[1] * 256 + v4.o[2], 16),
              IntToStr(v4.o[3] * 256 + v4.o[4], 16)>>

\* the parts of an IPv6 literal; <<>> when there are too few or the suffix is bad
IPv6Parts(parts) ==
  IF Len(parts) < 3 THEN <<>>
  ELSE IF contains(parts[Len(parts)], ".")
  THEN WithV4Suffix(parts, IPv4Address(parts[Len(parts)]))
  ELSE parts

\* the places of an empty part, the endpoints disregarded: where '::' stands
Empties(parts) == {i \in 2..(Len(parts) - 1) : parts[i] = ""}

\* parts_hi and parts_lo: the hextets before and after the '::' at skip
PartsHi(parts, skip) == IF parts[1] = "" THEN skip - 2 ELSE skip - 1

PartsLo(parts, skip) ==
  IF parts[Len(parts)] = "" THEN Len(parts) - skip - 1 ELSE Len(parts) - skip

IPv6OfHextets(h) ==
  IF \E i \in 1..8 : h[i] = -1 THEN NoAddr ELSE [v |-> 6, h |-> h]

\* an address with '::' at skip, hi hextets before it and lo after it
IPv6Skipped(parts, hi, lo) ==
  IF (parts[1] = "" /\ hi # 0) \/ (parts[Len(parts)] = "" /\ lo # 0)
       \/ 8 - (hi + lo) < 1
  THEN NoAddr
  ELSE IPv6OfHextets(
         [i \in 1..8 |-> IF i <= hi THEN ParseHextet(parts[i])
                         ELSE IF i > 8 - lo THEN ParseHextet(parts[Len(parts) - (8 - i)])
                         ELSE 0])

IPv6AtSkip(parts, skip) ==
  IPv6Skipped(parts, PartsHi(parts, skip), PartsLo(parts, skip))

\* IPv6Address._ip_int_from_string, on the parts
IPv6OfParts(parts) ==
  IF Len(parts) = 0 \/ Len(parts) > 9 \/ Cardinality(Empties(parts)) > 1 THEN NoAddr
  ELSE IF Empties(parts) # {}
  THEN IPv6AtSkip(parts, CHOOSE i \in Empties(parts) : TRUE)
  ELSE IF Len(parts) # 8 THEN NoAddr
  ELSE IPv6OfHextets([i \in 1..8 |-> ParseHextet(parts[i])])

\* IPv6Address(s)
IPv6Address(s) == IPv6OfParts(IPv6Parts(split(s, ":")))

\* IPv4 first, then IPv6, else ValueError
FirstAddr(v4, s) == IF v4 # NoAddr THEN v4 ELSE IPv6Address(s)

\* ipaddress.ip_address(s)
ip_address(s) == FirstAddr(IPv4Address(s), s)

RECURSIVE Pow2(_)
Pow2(k) == IF k = 0 THEN 1 ELSE 2 * Pow2(k - 1)

\* the number of the first len bits that lie in word i (w bits a word)
BitsIn(i, w, len) ==
  IF len >= w * i THEN w ELSE IF len <= w * (i - 1) THEN 0 ELSE len - w * (i - 1)

\* the first len bits of the words of a and of b agree
SamePrefix(a, b, w, len) ==
  \A i \in DOMAIN a :
    a[i] \div Pow2(w - BitsIn(i, w, len)) = b[i] \div Pow2(w - BitsIn(i, w, len))

\* ip in IPv4Network(net/len)
InNet4(ip, net, len) == SamePrefix(ip.o, IPv4Address(net).o, 8, len)

\* ip in IPv6Network(net/len)
InNet6(ip, net, len) == SamePrefix(ip.h, IPv6Address(net).h, 16, len)

\* _IPv4Constants._private_networks
PrivateNetworks4 ==
  { <<"0.0.0.0", 8>>, <<"10.0.0.0", 8>>, <<"127.0.0.0", 8>>, <<"169.254.0.0", 16>>,
    <<"172.16.0.0", 12>>, <<"192.0.0.0", 29>>, <<"192.0.0.170", 31>>,
    <<"192.0.2.0", 24>>, <<"192.168.0.0", 16>>, <<"198.18.0.0", 15>>,
    <<"198.51.100.0", 24>>, <<"203.0.113.0", 24>>, <<"240.0.0.0", 4>>,
    <<"255.255.255.255", 32>> }

\* _IPv6Constants._private_networks
PrivateNetworks6 ==
  { <<"::1", 128>>, <<"::", 128>>, <<"::ffff:0:0", 96>>, <<"100::", 64>>,
    <<"2001::", 23>>, <<"2001:2::", 48>>, <<"2001:db8::", 32>>, <<"2001:10::", 28>>,
    <<"fc00::", 7>>, <<"fe80::", 10>> }

\* _IPv6Constants._reserved_networks
ReservedNetworks6 ==
  { <<"::", 8>>, <<"100::", 8>>, <<"200::", 7>>, <<"400::", 6>>, <<"800::", 5>>,
    <<"1000::", 4>>, <<"4000::", 3>>, <<"6000::", 3>>, <<"8000::", 3>>,
    <<"A000::", 3>>, <<"C000::", 3>>, <<"E000::", 4>>, <<"F000::", 5>>,
    <<"F800::", 6>>, <<"FE00::", 9>> }

\* IPv6Address.ipv4_mapped: the embedded IPv4 address of ::ffff:a.b.c.d, else NoAddr
ipv4_mapped(ip) ==
  IF ip.v = 6 /\ (\A i \in 1..5 : ip.h[i] = 0) /\ ip.h[6] = 65535
  THEN [v |-> 4, o |-> <<ip.h[7] \div 256, ip.h[7] % 256, ip.h[8] \div 256, ip.h[8] % 256>>]
  ELSE NoAddr

RECURSIVE is_private(_)
is_private(ip) ==
  IF ip.v = 4 THEN \E n \in PrivateNetworks4 : InNet4(ip, n[1], n[2])
  ELSE IF ipv4_mapped(ip) # NoAddr THEN is_private(ipv4_mapped(ip))
  ELSE \E n \in PrivateNetworks6 : InNet6(ip, n[1], n[2])

is_loopback(ip) ==
  IF ip.v = 4 THEN InNet4(ip, "127.0.0.0", 8)
  ELSE ip.h = <<0, 0, 0, 0, 0, 0, 0, 1>>

is_link_local(ip) ==
  IF ip.v = 4 THEN InNet4(ip, "169.254.0.0", 16) ELSE InNet6(ip, "fe80::", 10)

is_reserved(ip) ==
  IF ip.v = 4 THEN InNet4(ip, "240.0.0.0", 4)
  ELSE \E n \in ReservedNetworks6 : InNet6(ip, n[1], n[2])

is_multicast(ip) ==
  IF ip.v = 4 THEN InNet4(ip, "224.0.0.0", 4) ELSE InNet6(ip, "ff00::", 8)

is_unspecified(ip) ==
  IF ip.v = 4 THEN ip.o = <<0, 0, 0, 0>> ELSE ip.h = <<0, 0, 0, 0, 0, 0, 0, 0>>

\* str(IPv4Address): the dotted quad
DottedQuad(o) ==
  IntToStr(o[1], 10) \o "." \o IntToStr(o[2], 10) \o "."
    \o IntToStr(o[3], 10) \o "." \o IntToStr(o[4], 10)

\* the number of zero hextets of h from place i on
RECURSIVE ZeroRun(_, _)
ZeroRun(h, i) == IF i > 8 \/ h[i] # 0 THEN 0 ELSE 1 + ZeroRun(h, i + 1)

RECURSIVE JoinHex(_, _, _)
JoinHex(h, i, j) ==
  IF i > j THEN ""
  ELSE IntToStr(h[i], 16) \o (IF i < j THEN ":" ELSE "") \o JoinHex(h, i + 1, j)

\* _compress_hextets: the start of the first longest run of zero hextets
BestRun(h) ==
  CHOOSE i \in 1..8 :
    /\ \A j \in 1..8 : ZeroRun(h, j) <= ZeroRun(h, i)
    /\ \A j \in 1..(i - 1) : ZeroRun(h, j) < ZeroRun(h, i)

\* the hextets with :: for the run of len zero hextets at best, if len > 1
Compressed(h, best, len) ==
  IF len > 1 THEN JoinHex(h, 1, best - 1) \o "::" \o JoinHex(h, best + len, 8)
  ELSE JoinHex(h, 1, 8)

CompressedAt(h, best) == Compressed(h, best, ZeroRun(h, best))

\* str(IPv6Address)
CompressedHex(h) == CompressedAt(h, BestRun(h))

\* str(ip)
IpToStr(ip) == IF ip.v = 4 THEN DottedQuad(ip.o) ELSE CompressedHex(ip.h)

(***************************************************************************)
(* server.py: the security configuration's constants.                      *)
(***************************************************************************)
BLOCKED_HOSTNAMES ==
  { "localhost", "localhost.localdomain", "ip6-localhost", "ip6-loopback",
    "metadata.google.internal", "metadata.internal", "kubernetes.default",
    "kubernetes.default.svc", "kubernetes.default.svc.cluster.local" }

CLOUD_METADATA_IPS == { "169.254.169.254", "169.254.170.2", "fd00:ec2::254" }

\* Python's None, where a string is expected
None == "None"

(***************************************************************************)
(* _parse_obfuscated_ip                                                    *)
(***************************************************************************)
\* str(ipaddress.IPv4Address(ip_int)) when 0 <= ip_int <= 0xFFFFFFFF, else no result
QuadOfInt(n) ==
  IF InRange32(n)
  THEN DottedQuad(<<n[1] \div 256, n[1] % 256, n[2] \div 256, n[2] % 256>>)
  ELSE None

\* a decoder that knows no octal form
OctalForm_absent(h) == None

\* the octal integer form: all digits, a leading zero, more than one digit
OctalForm(h) ==
  IF startswith(h, "0") /\ Len(h) > 1 /\ isdigit(h) THEN QuadOfInt(IntOfDigits(h, 8))
  ELSE None

\* the decimal integer form: all digits
DecimalForm(h) == IF isdigit(h) THEN QuadOfInt(IntOfDigits(h, 10)) ELSE None

\* a hex form that knows the prefix in lower case only
HexForm_case_sensitive(h) ==
  IF startswith(h, "0x") /\ ~contains(h, ".") THEN QuadOfInt(IntBase16(h))
  ELSE None

\* the hex integer form: 0x first and no dot
HexForm(h) ==
  IF startswith(lower(h), "0x") /\ ~contains(h, ".") THEN QuadOfInt(IntBase16(h))
  ELSE None

\* one part of the dotted form: hex, octal or decimal
PartIsHex(part) == startswith(lower(part), "0x")

PartIsOctal(part) ==
  ~PartIsHex(part) /\ startswith(part, "0") /\ Len(part) > 1 /\ isdigit(part)

PartValue(part) ==
  IF PartIsHex(part) THEN IntBase16(part)
  ELSE IF PartIsOctal(part) THEN IntOfDigits(part, 8)
  ELSE IntBase10(part)

\* a dotted form that does not ask for an obfuscated part
DottedOctets_unmarked(parts, octets) ==
  IF \E i \in 1..4 : ~IsInt(octets[i]) THEN None
  ELSE IF \A i \in 1..4 : InRange8(octets[i])
  THEN DottedQuad([i \in 1..4 |-> octets[i][2]])
  ELSE None

\* the four parts, stripped, and their values
DottedOctets(parts, octets) ==
  IF \E i \in 1..4 : ~IsInt(octets[i]) THEN None
  ELSE IF (\E i \in 1..4 : PartIsHex(parts[i]) \/ PartIsOctal(parts[i]))
            /\ \A i \in 1..4 : InRange8(octets[i])
  THEN DottedQuad([i \in 1..4 |-> octets[i][2]])
  ELSE None

DottedParts(parts) ==
  IF Len(parts) # 4 THEN None
  ELSE DottedOctets(parts, [i \in 1..4 |-> PartValue(parts[i])])

\* the dotted form: four parts, one of them hex or octal, each in 0..255
DottedForm(h) ==
  IF ~contains(h, ".") THEN None
  ELSE DottedParts([i \in 1..Len(split(h, ".")) |-> strip(split(h, ".")[i])])

\* a, or b when a gave no result: the fall through from one form to the next
OrElse(a, b) == IF a # None THEN a ELSE b

ParseForms(h) ==
  OrElse(OctalForm(h), OrElse(DecimalForm(h), OrElse(HexForm(h), DottedForm(h))))

_parse_obfuscated_ip(hostname) == ParseForms(strip(hostname))

(***************************************************************************)
(* _is_ip_private_or_reserved                                              *)
(***************************************************************************)
RECURSIVE _is_ip_private_or_reserved(_)
RECURSIVE ip_is_dangerous(_, _)
\* a classifier that takes what it cannot parse for safe
ip_is_dangerous_fail_open(ip, ip_str) ==
  IF ip = NoAddr THEN FALSE
  ELSE IF is_private(ip) THEN TRUE
  ELSE IF is_loopback(ip) THEN TRUE
  ELSE IF is_link_local(ip) THEN TRUE
  ELSE IF is_reserved(ip) THEN TRUE
  ELSE IF is_multicast(ip) THEN TRUE
  ELSE IF is_unspecified(ip) THEN TRUE
  ELSE IF ip.v = 6 /\ ipv4_mapped(ip) # NoAddr
  THEN _is_ip_private_or_reserved(IpToStr(ipv4_mapped(ip)))
  ELSE IF ip_str \in CLOUD_METADATA_IPS THEN TRUE
  ELSE FALSE

\* the body of the try block, ip the parsed ip_str; NoAddr is the ValueError
ip_is_dangerous(ip, ip_str) ==
  IF ip = NoAddr THEN TRUE
  ELSE IF is_private(ip) THEN TRUE
  ELSE IF is_loopback(ip) THEN TRUE
  ELSE IF is_link_local(ip) THEN TRUE
  ELSE IF is_reserved(ip) THEN TRUE
  ELSE IF is_multicast(ip) THEN TRUE
  ELSE IF is_unspecified(ip) THEN TRUE
  ELSE IF ip.v = 6 /\ ipv4_mapped(ip) # NoAddr
  THEN _is_ip_private_or_reserved(IpToStr(ipv4_mapped(ip)))
  ELSE IF ip_str \in CLOUD_METADATA_IPS THEN TRUE
  ELSE FALSE

_is_ip_private_or_reserved(ip_str) == ip_is_dangerous(ip_address(ip_str), ip_str)

(***************************************************************************)
(* Host names: normalisation, the blocklist, the allowlist.                *)
(***************************************************************************)
_normalize_hostname(hostname) == lower(rstrip(hostname, "."))

\* a blocklist that matches an entry at the end of the name, dot or no dot
_is_hostname_blocked_suffix(hostname) ==
  \/ _normalize_hostname(hostname) \in BLOCKED_HOSTNAMES
  \/ \E blocked \in BLOCKED_HOSTNAMES :
       endswith(_normalize_hostname(hostname), blocked)

_is_hostname_blocked(hostname) ==
  \/ _normalize_hostname(hostname) \in BLOCKED_HOSTNAMES
  \/ \E blocked \in BLOCKED_HOSTNAMES :
       endswith(_normalize_hostname(hostname), "." \o blocked)

\* allowed: the configured ALLOWED_PRIVATE_HOSTS
_is_hostname_whitelisted(hostname, allowed) ==
  IF allowed = {} THEN FALSE ELSE _normalize_hostname(hostname) \in allowed

(***************************************************************************)
(* urllib.parse.urlparse (CPython 3.11), as far as validate_url_for_ssrf   *)
(* reads its result: the scheme and the hostname.  IPvFuture literals and  *)
(* non-ASCII text are outside the alphabet of the inputs.                  *)
(***************************************************************************)
LowerLetters ==
  { "a", "b", "c", "d", "e", "f", "g", "h", "i", "j", "k", "l", "m",
    "n", "o", "p", "q", "r", "s", "t", "u", "v", "w", "x", "y", "z" }

Letters ==
  LowerLetters \cup HexUpperChars \cup
    { "G", "H", "I", "J", "K", "L", "M", "N", "O", "P", "Q",
      "R", "S", "T", "U", "V", "W", "X", "Y", "Z" }

\* urllib.parse.scheme_chars
SchemeChars == Letters \cup DigitChars \cup {"+", "-", "."}

\* the place of the colon that ends the scheme, 0 when the URL has no scheme
SchemeEnd(url) ==
  LET i == find(url, ":")
  IN  IF i > 1 /\ Ch(url, 1) \in Letters /\ \A j \in 1..(i - 1) : Ch(url, j) \in SchemeChars
      THEN i ELSE 0

\* _splitnetloc(rest, 2): the text between // and the first of / ? #
Netloc(rest) ==
  LET ends  == {i \in 3..Len(rest) : Ch(rest, i) \in {"/", "?", "#"}}
      delim == IF ends = {} THEN Len(rest) + 1
               ELSE CHOOSE i \in ends : \A j \in ends : i <= j
  IN  SubSeq(rest, 3, delim - 1)

\* s.partition(c)[0] and s.partition(c)[2]
Before(s, c) == IF find(s, c) = 0 THEN s ELSE SubSeq(s, 1, find(s, c) - 1)

After(s, c) == IF find(s, c) = 0 THEN "" ELSE SubSeq(s, find(s, c) + 1, Len(s))

\* _check_bracketed_host: the text in brackets must be an IPv6 literal
BracketedHostOk(netloc) ==
  ip_address(Before(After(netloc, "["), "]")).v = 6

\* ParseResult._hostinfo[0]
HostInfo(netloc) ==
  LET hostinfo == SubSeq(netloc, rfind(netloc, "@") + 1, Len(netloc))
  IN  IF contains(hostinfo, "[") THEN Before(After(hostinfo, "["), "]")
      ELSE Before(hostinfo, ":")

\* ParseResult.hostname: lower case, a %zone kept as written, None when empty
HostnameOf(h) ==
  IF h = "" THEN None
  ELSE IF contains(h, "%") THEN lower(Before(h, "%")) \o "%" \o After(h, "%")
  ELSE lower(h)

Hostname(netloc) == HostnameOf(HostInfo(netloc))

\* urlsplit's checks of the netloc; [ok |-> FALSE] stands for the ValueError
ParseResult(scheme, netloc) ==
  IF contains(netloc, "[") # contains(netloc, "]") THEN [ok |-> FALSE]
  ELSE IF contains(netloc, "[") /\ ~BracketedHostOk(netloc) THEN [ok |-> FALSE]
  ELSE [ok |-> TRUE, scheme |-> scheme, netloc |-> netloc,
        hostname |-> Hostname(netloc)]

NetlocOf(rest) == IF startswith(rest, "//") THEN Netloc(rest) ELSE ""

\* the URL u split at the colon at i that ends its scheme (0: no scheme)
SplitScheme(u, i) ==
  IF i > 0 THEN ParseResult(lower(SubSeq(u, 1, i - 1)), NetlocOf(SubSeq(u, i + 1, Len(u))))
  ELSE ParseResult("", NetlocOf(u))

SplitUrl(u) == SplitScheme(u, SchemeEnd(u))

\* urlparse(url)
urlparse(url) == SplitUrl(lstrip(url, " "))

(***************************************************************************)
(* The inputs: the process's configuration, the URLs fetch_url is called   *)
(* with, the resolver's answers and what the network does.                 *)
(***************************************************************************)
\* the longest answer of getaddrinfo
MaxAnswers == 2

\* the addresses a resolver may answer with: public and internal, both families
DnsAddrs == { "93.184.216.34", "2606:2800:220:1::1", "10.0.0.5", "169.254.169.254" }

\* getaddrinfo's answers: the lists of at most MaxAnswers addresses
DnsAnswers == UNION { [1..n -> DnsAddrs] : n \in 0..MaxAnswers }

\* the values of ALLOWED_PRIVATE_HOSTS
AllowlistChoices == { {}, {"internal.corp", "localhost", "10.0.0.5"} }

\* n = hi * 65536 + lo written in the base, most significant digit first
RECURSIVE Digits32(_, _, _)
Digits32(hi, lo, base) ==
  IF hi = 0 /\ lo < base THEN DigitChar(lo)
  ELSE Digits32(hi \div base, ((hi % base) * Half + lo) \div base, base)
         \o DigitChar(((hi % base) * Half + lo) % base)

\* the integer spellings of the IPv4 address with the octets o
DecimalSpelling(o) == Digits32(o[1] * 256 + o[2], o[3] * 256 + o[4], 10)

OctalSpelling(o) == "0" \o Digits32(o[1] * 256 + o[2], o[3] * 256 + o[4], 8)

HexSpelling(o) == "0x" \o Digits32(o[1] * 256 + o[2], o[3] * 256 + o[4], 16)

Spellings(o) == { DecimalSpelling(o), OctalSpelling(o), HexSpelling(o) }

\* internal IPv4 addresses: loopback, cloud metadata, RFC 1918
InternalQuads == { <<127, 0, 0, 1>>, <<169, 254, 169, 254>>, <<10, 0, 0, 5>> }

PublicQuads == { <<8, 8, 8, 8>> }

\* host names: ordinary ones, blocklisted ones and near misses of the blocklist
HostNames ==
  { "example.com", "internal.corp", "localhost", "LocalHost.", "evil.localhost",
    "metadata.google.internal", "kubernetes.default.svc", "notlocalhost" }

\* IP literals as a URL writes them
HostLiterals ==
  { "127.0.0.1", "10.0.0.5", "169.254.169.254", "0.0.0.0", "8.8.8.8",
    "[::1]", "[::ffff:127.0.0.1]", "[::ffff:8.8.8.8]", "[fd00:ec2::254]",
    "[2606:4700:4700::1111]" }

\* integer and dotted spellings: of internal addresses, of public ones, of none
HostTokens ==
  UNION { Spellings(o) : o \in InternalQuads \cup PublicQuads }
    \cup { "0177.0.0.1", "0x7f.0.0.1", "089", "99999999999", "127.1" }

UrlHosts == HostNames \cup HostLiterals \cup HostTokens

\* what stands around the host: <<userinfo, port, path and query>>
UrlDecorations ==
  { <<"", "", "/">>, <<"user:pass@", "", "/">>, <<"", ":8080", "/">>,
    <<"admin@", ":80", "/latest/meta-data/?a=1#top">> }

MkUrl(scheme, host, d) == scheme \o "://" \o d[1] \o host \o d[2] \o d[3]

HttpUrls ==
  { MkUrl("http", host, d) : host \in UrlHosts, d \in UrlDecorations }
    \cup { MkUrl("https", host, <<"", "", "/">>) : host \in UrlHosts }

\* schemes other than http and https
OtherSchemes == { "file", "ftp", "gopher", "ldap", "dict", "sftp" }

\* the hosts tried with them: none, allowlisted, blocklisted, public
OtherSchemeHosts == { "", "internal.corp", "localhost", "example.com" }

OtherSchemeUrls ==
  { MkUrl(sch, host, <<"", "", "/x">>) : sch \in OtherSchemes, host \in OtherSchemeHosts }
    \cup { "data:text/html,x", "javascript:alert(1)", "//example.com/path",
           "//localhost/", "not-a-url", "" }

\* URLs urlparse refuses, URLs without a host, a scheme in upper case
OddUrls ==
  { "http://", "https:///path", "http://[::1", "http://[127.0.0.1]/", "ftp://[::1",
    "HTTP://LOCALHOST/" }

Urls == HttpUrls \cup OtherSchemeUrls \cup OddUrls

\* a response: its status code, its content-type header ("" when it has none)
\* and its text
Response(status_code, content_type, text) ==
  [type |-> "response", status |-> status_code, content_type |-> content_type,
   text |-> text]

\* an exception of the underlying HTTP transport: its class, its str(), and
\* whether the TLS layer raised it
Raised(type, text, tls) == [type |-> type, text |-> text, tls |-> tls]

\* what the underlying HTTP transport does with a request: it raises, or answers
NetworkOutcomes ==
  { Raised("ssl.SSLError", "certificate verify failed", TRUE),
    Raised("httpx.ConnectError", "[SSL: CERTIFICATE_VERIFY_FAILED]", TRUE),
    Raised("httpx.ConnectError",
           "[SSL: WRONG_VERSION_NUMBER] wrong version number (_ssl.c:1006)", TRUE),
    Raised("httpx.ConnectError", "All connection attempts failed", FALSE),
    Raised("httpx.ConnectError", "[Errno 111] Connection refused", FALSE),
    Raised("httpx.ConnectError", "", FALSE),
    Raised("httpx.TimeoutException", "Connection timed out", FALSE),
    Response(200, "text/html; charset=utf-8", "<html><body>page</body></html>"),
    Response(200, "application/json", "{\"a\": 1}"),
    Response(301, "", "Moved: http://169.254.169.254/latest/meta-data/"),
    Response(403, "text/html", "<html>Forbidden</html>"),
    Response(404, "text/plain", "Not Found") }

\* the failures of certificate verification among them
CertificateFailures ==
  { Raised("ssl.SSLError", "certificate verify failed", TRUE),
    Raised("httpx.ConnectError", "[SSL: CERTIFICATE_VERIFY_FAILED]", TRUE) }

\* what a transport built with the keyword arguments kwargs can do with a
\* request: one that does not verify certificates finds none wrong
OutcomesOf(kwargs) ==
  { o \in NetworkOutcomes : o \in CertificateFailures => kwargs.verify }

(***************************************************************************)
(* The state of one process: its configuration and one fetch_url call.     *)
(***************************************************************************)
VARIABLES
  ALLOW_PRIVATE_IPS,       \* the module global, set from the environment at import
  ALLOWED_PRIVATE_HOSTS,   \* the module global, set from the environment at import
  SSL_VERIFY,              \* the module global, set from the environment at import
  environ,                 \* os.environ's MCP_FETCH_SSL_VERIFY
  pc,                      \* where the call stands
  url,                     \* fetch_url's argument
  parsed,                  \* the validator's urlparse(url)
  hostname,                \* parsed.hostname, and the request's url.host
  checks,                  \* history: the validator's checks made so far, in order
  resolved_ips,            \* the validator's set of resolved addresses
  preflight,               \* history: the check validate_url_for_ssrf returned at
  preflight_public,        \* history: its resolver's answer held public addresses only
  addr_info,               \* the transport's getaddrinfo answer
  resolved_ip,             \* the transport's resolved address
  target,                  \* the host of the request handed to the real transport
  request,                 \* the request client.get() hands to SSRFSafeTransport
  new_request,             \* the request SSRFSafeTransport hands to the real transport
  call,                    \* the function called: fetch_url, or the robots.txt check
  force_raw,               \* fetch_url's argument
  other,                   \* the frame of the other call, while this one runs
  clients,                 \* history: the keyword arguments of each httpx.AsyncClient()
  transports,              \* history: those of each httpx.AsyncHTTPTransport()
  handler,                 \* the server's handler that runs: call_tool or get_prompt
  arguments,               \* the handler's arguments
  ignore_robots_txt,       \* serve()'s option
  reply,                   \* what the handler returned or raised
  received,                \* history: the content of the replies of earlier tool calls
  getaddrinfo_calls,       \* history: the resolutions made, by whom, and whose failed
  connects,                \* history: the addresses the real transport connected to
  exc,                     \* the exception leaving client.get()
  response,                \* the response of client.get()
  error,                   \* the McpError fetch_url raised
  result,                  \* what fetch_url returned
  ip_str,                  \* the argument of a call of _is_ip_private_or_reserved
  verdict,                 \* what a call of a predicate returned
  decoder_result           \* what a call of _parse_obfuscated_ip returned

vars ==
  << ALLOW_PRIVATE_IPS, ALLOWED_PRIVATE_HOSTS, pc, url, parsed, hostname, checks,
     resolved_ips, preflight, preflight_public, addr_info, resolved_ip, target,
     request, new_request, call, force_raw, other, getaddrinfo_calls, connects, exc,
     response, error, result, ip_str, verdict, decoder_result, SSL_VERIFY, environ,
     clients, transports, handler, arguments, ignore_robots_txt, reply, received >>

config == << ALLOW_PRIVATE_IPS, ALLOWED_PRIVATE_HOSTS, SSL_VERIFY, environ >>

\* the variables of a direct call of the classifier, the decoder or the blocklist
oracle == << ip_str, verdict, decoder_result >>

\* the variables of the validator
validator == << parsed, hostname, checks, resolved_ips, preflight, preflight_public >>

\* the variables of the transport and of the network under it
transport == << addr_info, resolved_ip, target, connects, request, new_request >>

\* what the call's caller fixed, and the call suspended next to it
caller == << call, force_raw, other, clients, transports, handler, arguments,
            ignore_robots_txt, reply, received >>

\* the variables of the server's handler
tool == << handler, arguments, ignore_robots_txt, reply, received >>

NoRequest == [method |-> "none"]

\* no other call
NoFrame == [pc |-> "none"]

NoParse == [ok |-> FALSE]

NoError == [code |-> "none"]

NoExc == [type |-> "none"]

NoResponse == [type |-> "none"]

NoCalls == [validator |-> 0, transport |-> 0, connection |-> 0, failed |-> "none"]

\* fetch_url has not returned
NoResult == [returned |-> FALSE]

INVALID_PARAMS == "INVALID_PARAMS"

INTERNAL_ERROR == "INTERNAL_ERROR"

\* McpError(ErrorData(code, message)); the message is named by its fixed text
McpError(by, code, message) ==
  [type |-> "McpError", by |-> by, code |-> code, message |-> message]

\* the answers of getaddrinfo that hold public addresses only
PublicDnsAddrs == { "93.184.216.34", "2606:2800:220:1::1" }

\* os.environ has no such variable
Unset == [set |-> FALSE]

NoArguments == [given |-> FALSE]

NoReply == [kind |-> "none"]

\* a process started without MCP_FETCH_SSL_VERIFY, and no handler called
NoTool ==
  /\ SSL_VERIFY = TRUE
  /\ environ = Unset
  /\ clients = <<>>
  /\ transports = <<>>
  /\ handler = "none"
  /\ arguments = NoArguments
  /\ ignore_robots_txt = FALSE
  /\ reply = NoReply
  /\ received = <<>>

\* the variables of a fetch_url call before it starts
NoCall ==
  /\ url = ""
  /\ parsed = NoParse
  /\ hostname = None
  /\ checks = <<>>
  /\ resolved_ips = {}
  /\ preflight = "none"
  /\ preflight_public = FALSE
  /\ addr_info = <<>>
  /\ resolved_ip = None
  /\ target = None
  /\ request = NoRequest
  /\ new_request = NoRequest
  /\ getaddrinfo_calls = NoCalls
  /\ connects = <<>>
  /\ exc = NoExc
  /\ response = NoResponse
  /\ error = NoError
  /\ result = NoResult

Init ==
  /\ ALLOW_PRIVATE_IPS \in BOOLEAN
  /\ ALLOWED_PRIVATE_HOSTS \in AllowlistChoices
  /\ pc = "idle"
  /\ NoCall
  /\ call = "fetch_url"
  /\ force_raw = FALSE
  /\ other = NoFrame
  /\ NoTool
  /\ ip_str = None
  /\ verdict = FALSE
  /\ decoder_result = None

\* fetch_url(url, ...) is called
fetch_url ==
  /\ pc = "idle"
  /\ call = "fetch_url"
  /\ \E u \in Urls : url' = u
  /\ pc' = "urlparse"
  /\ UNCHANGED << config, caller, validator, transport, getaddrinfo_calls, exc, response,
                  error, result, oracle >>

(***************************************************************************)
(* validate_url_for_ssrf, one action a check.  A check that raises ends    *)
(* the call: fetch_url has no handler around the validator.                *)
(***************************************************************************)
ValidatorRaises(message) ==
  /\ error' = McpError("validate_url_for_ssrf", INVALID_PARAMS, message)
  /\ pc' = "done"
  /\ preflight' = preflight

ValidatorReturns(at) ==
  /\ preflight' = at
  /\ pc' = "validated"
  /\ error' = error

ValidatorGoes(to) ==
  /\ pc' = to
  /\ preflight' = preflight
  /\ error' = error

\* parsed = urlparse(url), or its exception
ParseStep(p) ==
  /\ parsed' = p
  /\ IF ~p.ok THEN ValidatorRaises("Invalid URL format") ELSE ValidatorGoes("scheme")

validate_parse ==
  /\ pc = "urlparse"
  /\ ParseStep(urlparse(url))
  /\ UNCHANGED << config, caller, url, hostname, checks, resolved_ips, preflight_public,
                  transport, getaddrinfo_calls, exc, response, result, oracle >>

\* a deny list of schemes in place of the allow list
validate_scheme_denylist ==
  /\ pc = "scheme"
  /\ checks' = Append(checks, "scheme")
  /\ IF parsed.scheme \in {"file", "javascript", "data", ""}
     THEN ValidatorRaises("URL scheme is not allowed")
     ELSE ValidatorGoes("hostname")
  /\ UNCHANGED << config, caller, url, parsed, hostname, resolved_ips, preflight_public,
                  transport, getaddrinfo_calls, exc, response, result, oracle >>

validate_scheme ==
  /\ pc = "scheme"
  /\ checks' = Append(checks, "scheme")
  /\ IF parsed.scheme \notin {"http", "https"}
     THEN ValidatorRaises("URL scheme is not allowed")
     ELSE ValidatorGoes("hostname")
  /\ UNCHANGED << config, caller, url, parsed, hostname, resolved_ips, preflight_public,
                  transport, getaddrinfo_calls, exc, response, result, oracle >>

\* the blocklist consulted before the allowlist
validate_hostname_to_blocklist ==
  /\ pc = "hostname"
  /\ hostname' = parsed.hostname
  /\ IF parsed.hostname = None
     THEN ValidatorRaises("URL must contain a valid hostname")
     ELSE ValidatorGoes("blocklist")
  /\ UNCHANGED << config, caller, url, parsed, checks, resolved_ips, preflight_public,
                  transport, getaddrinfo_calls, exc, response, result, oracle >>

validate_hostname ==
  /\ pc = "hostname"
  /\ hostname' = parsed.hostname
  /\ IF parsed.hostname = None
     THEN ValidatorRaises("URL must contain a valid hostname")
     ELSE ValidatorGoes("whitelist")
  /\ UNCHANGED << config, caller, url, parsed, checks, resolved_ips, preflight_public,
                  transport, getaddrinfo_calls, exc, response, result, oracle >>

validate_whitelist ==
  /\ pc = "whitelist"
  /\ checks' = Append(checks, "whitelist")
  /\ IF _is_hostname_whitelisted(hostname, ALLOWED_PRIVATE_HOSTS)
     THEN ValidatorReturns("whitelist")
     ELSE ValidatorGoes("blocklist")
  /\ UNCHANGED << config, caller, url, parsed, hostname, resolved_ips, preflight_public,
                  transport, getaddrinfo_calls, exc, response, result, oracle >>

\* a blocklist that ALLOW_PRIVATE_IPS lifts with the other checks
validate_blocklist_lifted ==
  /\ pc = "blocklist"
  /\ checks' = Append(checks, "blocklist")
  /\ IF ~ALLOW_PRIVATE_IPS /\ _is_hostname_blocked(hostname)
     THEN ValidatorRaises("Access to hostname is blocked")
     ELSE ValidatorGoes("decoder")
  /\ UNCHANGED << config, caller, url, parsed, hostname, resolved_ips, preflight_public,
                  transport, getaddrinfo_calls, exc, response, result, oracle >>

validate_blocklist ==
  /\ pc = "blocklist"
  /\ checks' = Append(checks, "blocklist")
  /\ IF _is_hostname_blocked(hostname)
     THEN ValidatorRaises("Access to hostname is blocked")
     ELSE ValidatorGoes("decoder")
  /\ UNCHANGED << config, caller, url, parsed, hostname, resolved_ips, preflight_public,
                  transport, getaddrinfo_calls, exc, response, result, oracle >>

\* obfuscated_ip = _parse_obfuscated_ip(hostname)
DecoderStep(obfuscated_ip) ==
  IF obfuscated_ip # None
  THEN IF _is_ip_private_or_reserved(obfuscated_ip) /\ ~ALLOW_PRIVATE_IPS
       THEN ValidatorRaises("Access to obfuscated private IP address is blocked")
       ELSE ValidatorReturns("decoder")
  ELSE ValidatorGoes("literal")

validate_decoder ==
  /\ pc = "decoder"
  /\ checks' = Append(checks, "decoder")
  /\ DecoderStep(_parse_obfuscated_ip(hostname))
  /\ UNCHANGED << config, caller, url, parsed, hostname, resolved_ips, preflight_public,
                  transport, getaddrinfo_calls, exc, response, result, oracle >>

\* ip = ipaddress.ip_address(hostname), or its ValueError
LiteralStep(ip) ==
  IF ip # NoAddr
  THEN IF _is_ip_private_or_reserved(IpToStr(ip)) /\ ~ALLOW_PRIVATE_IPS
       THEN ValidatorRaises("Access to private/internal IP address is blocked")
       ELSE ValidatorReturns("literal")
  ELSE ValidatorGoes("resolve")

validate_literal ==
  /\ pc = "literal"
  /\ checks' = Append(checks, "literal")
  /\ LiteralStep(ip_address(hostname))
  /\ UNCHANGED << config, caller, url, parsed, hostname, resolved_ips, preflight_public,
                  transport, getaddrinfo_calls, exc, response, result, oracle >>

\* a resolver error swallowed: the validator returns
validate_resolve_fails_open ==
  /\ pc = "resolve"
  /\ checks' = Append(checks, "dns")
  /\ getaddrinfo_calls' =
       [getaddrinfo_calls EXCEPT !.validator = @ + 1, !.failed = "validator"]
  /\ ValidatorReturns("dns")
  /\ UNCHANGED << config, caller, url, parsed, hostname, resolved_ips, preflight_public,
                  transport, exc, response, result, oracle >>

\* getaddrinfo raises socket.gaierror
validate_resolve_fails ==
  /\ pc = "resolve"
  /\ checks' = Append(checks, "dns")
  /\ getaddrinfo_calls' =
       [getaddrinfo_calls EXCEPT !.validator = @ + 1, !.failed = "validator"]
  /\ ValidatorRaises("Failed to resolve hostname")
  /\ UNCHANGED << config, caller, url, parsed, hostname, resolved_ips, preflight_public,
                  transport, exc, response, result, oracle >>

\* a loop that raises only when every resolved address is dangerous
ResolveStep_all(ips) ==
  /\ resolved_ips' = ips
  /\ preflight_public' = (ips \subseteq PublicDnsAddrs)
  /\ IF ~ALLOW_PRIVATE_IPS /\ ips # {} /\ \A ip \in ips : _is_ip_private_or_reserved(ip)
     THEN ValidatorRaises("Hostname resolves to private/internal IP address")
     ELSE ValidatorReturns("dns")

\* a validator that remembers its verdict: a URL the other call was let
\* through for by resolution is let through again
ResolveStep_cached(ips) ==
  /\ resolved_ips' = ips
  /\ preflight_public' = (ips \subseteq PublicDnsAddrs)
  /\ IF other # NoFrame /\ other.url = url /\ other.preflight = "dns"
     THEN ValidatorReturns("dns")
     ELSE IF ~ALLOW_PRIVATE_IPS /\ \E ip \in ips : _is_ip_private_or_reserved(ip)
          THEN ValidatorRaises("Hostname resolves to private/internal IP address")
          ELSE ValidatorReturns("dns")

\* the loop over resolved_ips
ResolveStep(ips) ==
  /\ resolved_ips' = ips
  /\ preflight_public' = (ips \subseteq PublicDnsAddrs)
  /\ IF ~ALLOW_PRIVATE_IPS /\ \E ip \in ips : _is_ip_private_or_reserved(ip)
     THEN ValidatorRaises("Hostname resolves to private/internal IP address")
     ELSE ValidatorReturns("dns")

\* getaddrinfo answers; every address of the answer is classified
validate_resolve ==
  /\ pc = "resolve"
  /\ checks' = Append(checks, "dns")
  /\ getaddrinfo_calls' = [getaddrinfo_calls EXCEPT !.validator = @ + 1]
  /\ \E answer \in DnsAnswers : ResolveStep({ answer[i] : i \in 1..Len(answer) })
  /\ UNCHANGED << config, caller, url, parsed, hostname, transport, exc, response, result,
                  oracle >>

(***************************************************************************)
(* SSRFSafeTransport.handle_async_request, reached through client.get().   *)
(* The request's url.host is the hostname urlparse gave: lower case, an    *)
(* IPv6 literal without its brackets.  The validator's locals are gone.    *)
(***************************************************************************)
\* the netloc's user name and password, without the @
Userinfo(netloc) ==
  IF rfind(netloc, "@") = 0 THEN "" ELSE SubSeq(netloc, 1, rfind(netloc, "@") - 1)

\* the port as written after the host, "" when there is none
PortOfHostinfo(hostinfo) ==
  IF contains(hostinfo, "]") THEN After(After(hostinfo, "]"), ":") ELSE After(hostinfo, ":")

\* httpx drops the port that is the scheme's default
NormalPort(scheme, port) ==
  IF (scheme = "http" /\ port = "80") \/ (scheme = "https" /\ port = "443") THEN ""
  ELSE port

\* the URL's path and query: what follows the netloc, without the fragment
RawPath(u, p) ==
  Before(SubSeq(u, SchemeEnd(u) + 3 + Len(p.netloc), Len(u)), "#")

\* httpx.URL(url): p is urlparse(url), the host is p.hostname
RequestUrl(u, p) ==
  [scheme |-> p.scheme, userinfo |-> Userinfo(p.netloc), host |-> p.hostname,
   port |-> NormalPort(p.scheme, PortOfHostinfo(SubSeq(p.netloc, rfind(p.netloc, "@") + 1,
                                                       Len(p.netloc)))),
   raw_path |-> RawPath(u, p)]

\* the Host header httpx derives from a URL: the host, in brackets when it
\* is an IPv6 literal, and the port when it is not the default
HostHeader(u) ==
  (IF contains(u.host, ":") THEN "[" \o u.host \o "]" ELSE u.host)
    \o (IF u.port = "" THEN "" ELSE ":" \o u.port)

\* client.get(url, follow_redirects=False, headers={"User-Agent": ...}, timeout=30)
BuildRequest(u) ==
  [method |-> "GET", url |-> u,
   headers |-> [Host |-> HostHeader(u), UserAgent |-> "user_agent"],
   stream |-> "ByteStream(b'')", extensions |-> "timeout=30"]

Request(u, p) == BuildRequest(RequestUrl(lstrip(u, " "), p))

\* request.url.copy_with(host=host)
copy_with(u, host) == [u EXCEPT !.host = host]

\* a new request whose headers httpx derives from the new URL
NewRequest_fresh_headers(req, ip) ==
  [method |-> req.method, url |-> copy_with(req.url, ip),
   headers |-> [req.headers EXCEPT !.Host = HostHeader(copy_with(req.url, ip))],
   stream |-> req.stream, extensions |-> req.extensions]

\* httpx.Request(method, url=new_url, headers, stream, extensions)
NewRequest(req, ip) ==
  [method |-> req.method, url |-> copy_with(req.url, ip), headers |-> req.headers,
   stream |-> req.stream, extensions |-> req.extensions]

TransportRaises(message) ==
  /\ exc' = McpError("SSRFSafeTransport", INVALID_PARAMS, message)
  /\ pc' = "except"

\* the host is a literal IP: the request is delegated as it is
\* a transport that resolves whatever host it is given
TransportEntry_always_resolves(req) ==
  /\ request' = req
  /\ new_request' = new_request /\ target' = target /\ pc' = "transport_resolve"

TransportEntry(req) ==
  /\ request' = req
  /\ IF ip_address(hostname) # NoAddr
     THEN new_request' = req /\ target' = hostname /\ pc' = "delegate"
     ELSE new_request' = new_request /\ target' = target /\ pc' = "transport_resolve"

\* transport = SSRFSafeTransport(proxy=proxy_url, verify=SSL_VERIFY) and
\* httpx.AsyncClient(transport=transport): the keyword arguments of the
\* wrapped httpx.AsyncHTTPTransport and of the client, proxy_url None
ClientStep(verify) ==
  /\ transports' = Append(transports, [verify |-> verify])
  /\ clients' = Append(clients, [transport |-> "SSRFSafeTransport"])

\* the client is built and client.get() enters the transport
transport_literal ==
  /\ pc = "validated"
  /\ resolved_ips' = {}
  /\ ClientStep(SSL_VERIFY)
  /\ TransportEntry(Request(url, parsed))
  /\ UNCHANGED << config, call, force_raw, other, tool, url, parsed, hostname, checks, preflight,
                  preflight_public, addr_info, resolved_ip, connects, getaddrinfo_calls,
                  exc, response, error, result, oracle >>

\* getaddrinfo raises socket.gaierror
transport_resolve_fails ==
  /\ pc = "transport_resolve"
  /\ getaddrinfo_calls' =
       [getaddrinfo_calls EXCEPT !.transport = @ + 1, !.failed = "transport"]
  /\ TransportRaises("Failed to resolve hostname")
  /\ UNCHANGED << config, caller, url, validator, transport, response, error, result, oracle >>

\* the request handed on with its host name: the real transport resolves it again
AnswerStep_by_name(answer) ==
  /\ addr_info' = answer
  /\ IF Len(answer) = 0
     THEN /\ TransportRaises("Failed to resolve hostname: no addresses found")
          /\ UNCHANGED << resolved_ip, target, new_request >>
     ELSE /\ resolved_ip' = answer[1]
          /\ IF ~ALLOW_PRIVATE_IPS /\ _is_ip_private_or_reserved(answer[1])
             THEN /\ TransportRaises("DNS rebinding protection")
                  /\ UNCHANGED << target, new_request >>
             ELSE /\ new_request' = request
                  /\ target' = hostname /\ pc' = "delegate" /\ exc' = exc

\* the transport's answer: empty, or its first address is classified
AnswerStep(answer) ==
  /\ addr_info' = answer
  /\ IF Len(answer) = 0
     THEN /\ TransportRaises("Failed to resolve hostname: no addresses found")
          /\ UNCHANGED << resolved_ip, target, new_request >>
     ELSE /\ resolved_ip' = answer[1]
          /\ IF ~ALLOW_PRIVATE_IPS /\ _is_ip_private_or_reserved(answer[1])
             THEN /\ TransportRaises("DNS rebinding protection")
                  /\ UNCHANGED << target, new_request >>
             ELSE /\ new_request' = NewRequest(request, answer[1])
                  /\ target' = answer[1] /\ pc' = "delegate" /\ exc' = exc

\* getaddrinfo answers; the first address is classified and becomes the host
transport_resolve ==
  /\ pc = "transport_resolve"
  /\ getaddrinfo_calls' = [getaddrinfo_calls EXCEPT !.transport = @ + 1]
  /\ \E answer \in DnsAnswers : AnswerStep(answer)
  /\ UNCHANGED << config, caller, url, validator, connects, request, response, error,
                  result, oracle >>

\* a client that follows redirects: after a 3xx answer it connects to the
\* address the Location header names
transport_delegate_follows_redirects ==
  /\ pc = "delegate"
  /\ addr_info' = <<>>
  /\ getaddrinfo_calls' =
       IF ip_address(target) # NoAddr THEN getaddrinfo_calls
       ELSE [getaddrinfo_calls EXCEPT !.connection = @ + 1]
  /\ \E a \in (IF ip_address(target) # NoAddr THEN {target} ELSE DnsAddrs),
        o \in OutcomesOf(transports[Len(transports)]) :
       /\ connects' = IF o.type = "response" /\ o.status \in 300..399
                      THEN Append(Append(connects, a), "169.254.169.254")
                      ELSE Append(connects, a)
       /\ IF o.type = "response"
          THEN response' = o /\ exc' = exc /\ pc' = "received"
          ELSE response' = response /\ exc' = o /\ pc' = "except"
  /\ UNCHANGED << config, caller, url, validator, resolved_ip, target, request,
                  new_request, error, result, oracle >>

\* self._transport.handle_async_request: the real transport connects to the
\* request's host, resolving it first when it is a name, and the network answers
transport_delegate ==
  /\ pc = "delegate"
  /\ addr_info' = <<>>
  /\ IF ip_address(target) # NoAddr
     THEN /\ connects' = Append(connects, target)
          /\ getaddrinfo_calls' = getaddrinfo_calls
     ELSE /\ \E a \in DnsAddrs : connects' = Append(connects, a)
          /\ getaddrinfo_calls' = [getaddrinfo_calls EXCEPT !.connection = @ + 1]
  /\ \E o \in OutcomesOf(transports[Len(transports)]) :
       IF o.type = "response"
       THEN response' = o /\ exc' = exc /\ pc' = "received"
       ELSE response' = response /\ exc' = o /\ pc' = "except"
  /\ UNCHANGED << config, caller, url, validator, resolved_ip, target, request,
                  new_request, error, result, oracle >>

(***************************************************************************)
(* fetch_url after client.get(): its except clauses, then the response.    *)
(***************************************************************************)
\* sub in s
RECURSIVE instr(_, _)
instr(s, sub) ==
  IF Len(s) < Len(sub) THEN FALSE
  ELSE startswith(s, sub) \/ instr(SubSeq(s, 2, Len(s)), sub)

FetchRaises(message) == McpError("fetch_url", INTERNAL_ERROR, message)

\* a clause that takes no connect error for a wrapped TLS failure
ConnectErrorClause_unwrapped(error_str) == FetchRaises("Failed to connect")

\* the branch of except httpx.ConnectError, error_str the lowered text
ConnectErrorClause(error_str) ==
  IF instr(error_str, "ssl") \/ instr(error_str, "certificate")
       \/ instr(error_str, "verify")
  THEN FetchRaises("SSL Certificate verification failed")
  ELSE FetchRaises("Failed to connect")

\* a last clause "except Exception" that wraps whatever is left
ExceptClause_catch_all(e) ==
  IF e.type = "ssl.SSLError" THEN FetchRaises("SSL Certificate verification failed")
  ELSE IF e.type = "httpx.ConnectError" THEN ConnectErrorClause(lower(e.text))
  ELSE FetchRaises("Failed to fetch")

\* the except clauses around client.get(): ssl.SSLError, httpx.ConnectError,
\* httpx.HTTPError; any other exception leaves fetch_url as it is
ExceptClause(e) ==
  IF e.type = "ssl.SSLError" THEN FetchRaises("SSL Certificate verification failed")
  ELSE IF e.type = "httpx.ConnectError" THEN ConnectErrorClause(lower(e.text))
  ELSE IF e.type = "httpx.TimeoutException" THEN FetchRaises("Failed to fetch")
  ELSE e

\* a fetch_url that tries the GET once more after a timeout
fetch_url_except_retries ==
  /\ pc = "except"
  /\ call = "fetch_url"
  /\ IF exc.type = "httpx.TimeoutException" /\ Len(connects) < 2
     THEN error' = error /\ pc' = "validated"
     ELSE error' = ExceptClause(exc) /\ pc' = "done"
  /\ addr_info' = <<>>
  /\ UNCHANGED << config, caller, url, validator, resolved_ip, target, connects,
                  request, new_request, getaddrinfo_calls, exc, response, result,
                  oracle >>

fetch_url_except ==
  /\ pc = "except"
  /\ call = "fetch_url"
  /\ error' = ExceptClause(exc)
  /\ addr_info' = <<>>
  /\ pc' = "done"
  /\ UNCHANGED << config, caller, url, validator, resolved_ip, target, connects,
                  request, new_request, getaddrinfo_calls, exc, response, result,
                  oracle >>

\* "<html" in page_raw[:100] or "text/html" in content_type or not content_type
is_page_html(page_raw, content_type) ==
  \/ instr(SubSeq(page_raw, 1, IF Len(page_raw) < 100 THEN Len(page_raw) ELSE 100),
           "<html")
  \/ instr(content_type, "text/html")
  \/ content_type = ""

\* what extract_content_from_html may return: readabilipy finds content and
\* markdownify renders it, or readabilipy finds none
extract_content_from_html(html) ==
  { "markdownify(" \o html \o ")", "<error>Page failed to be simplified from HTML</error>" }

\* the prefix of a page returned raw
RawPrefix(content_type) ==
  "Content type " \o content_type
    \o " cannot be simplified to markdown, but here is the raw content:\n"

\* return content, prefix
Returns(content, prefix) == [returned |-> TRUE, content |-> content, prefix |-> prefix]

\* a fetch_url that simplifies a page even when asked for the raw one
ResponseStep_ignores_force_raw(extracted) ==
  IF response.status >= 400
  THEN error' = FetchRaises("Failed to fetch - status code") /\ result' = result
  ELSE /\ error' = error
       /\ result' = IF is_page_html(response.text, response.content_type)
                    THEN Returns(extracted, "")
                    ELSE Returns(response.text, RawPrefix(response.content_type))

\* the status check and the two returns, extracted what the extraction gives
ResponseStep(extracted) ==
  IF response.status >= 400
  THEN error' = FetchRaises("Failed to fetch - status code") /\ result' = result
  ELSE /\ error' = error
       /\ result' = IF is_page_html(response.text, response.content_type) /\ ~force_raw
                    THEN Returns(extracted, "")
                    ELSE Returns(response.text, RawPrefix(response.content_type))

fetch_url_response ==
  /\ pc = "received"
  /\ call = "fetch_url"
  /\ \E extracted \in extract_content_from_html(response.text) : ResponseStep(extracted)
  /\ pc' = "done"
  /\ UNCHANGED << config, caller, url, validator, transport, getaddrinfo_calls, exc, response,
                  oracle >>

Next ==
  \/ fetch_url
  \/ validate_parse
  \/ validate_scheme
  \/ validate_hostname
  \/ validate_whitelist
  \/ validate_blocklist
  \/ validate_decoder
  \/ validate_literal
  \/ validate_resolve_fails
  \/ validate_resolve
  \/ transport_literal
  \/ transport_resolve_fails
  \/ transport_resolve
  \/ transport_delegate
  \/ fetch_url_except
  \/ fetch_url_response

Spec == Init /\ [][Next]_vars

(***************************************************************************)
(* _is_ip_private_or_reserved called on its own, on literals of every      *)
(* kind and on text that is no address.                                    *)
(***************************************************************************)
\* the octets the IPv4 inputs are made of: the ends of the ranges RFC 1918,
\* RFC 3927 and RFC 5771 name, and octets outside them
FirstOctets == { 0, 1, 8, 10, 127, 169, 172, 192, 224, 239, 240, 255 }

SecondOctets == { 0, 16, 31, 168, 254 }

ThirdOctets == { 0, 169 }

FourthOctets == { 1, 254 }

OracleQuads ==
  { <<a, b, c, d>> : a \in FirstOctets, b \in SecondOctets, c \in ThirdOctets,
                     d \in FourthOctets }
    \cup { <<0, 0, 0, 0>>, <<255, 255, 255, 255>>, <<8, 8, 8, 8>>, <<1, 1, 1, 1>>,
           <<93, 184, 216, 34>>, <<169, 254, 169, 254>>, <<169, 254, 170, 2>> }

\* IPv6 literals: loopback, link-local, unique-local, multicast, unspecified,
\* the metadata address, and public ones
OracleV6 ==
  { "::1", "fe80::1", "febf::1", "fc00::1", "fd12:3456:789a::1", "ff02::1",
    "ff05::2", "::", "fd00:ec2::254", "2606:4700:4700::1111",
    "2001:4860:4860::8888" }

\* text ipaddress.ip_address raises ValueError on
OracleNoAddress ==
  { "", "localhost", "example.com", "256.1.1.1", "1.2.3", "1.2.3.4.5", "01.2.3.4",
    "0x7f.0.0.1", "2130706433", ":::", "1::2::3", "g::1", " 127.0.0.1",
    "127.0.0.1 ", "8.8.8.8/24", "8.8.8.8:80", "[::1]", "::ffff:999.1.1.1",
    "12345::", "1:2:3:4:5:6:7:8:9" }

\* the IPv4-mapped IPv6 literal of the IPv4 address with the octets o
MappedLiteral(o) == "::ffff:" \o DottedQuad(o)

OracleInputs ==
  { DottedQuad(o) : o \in OracleQuads } \cup { MappedLiteral(o) : o \in OracleQuads }
    \cup OracleV6 \cup OracleNoAddress

InitOracle ==
  /\ ALLOW_PRIVATE_IPS = FALSE
  /\ ALLOWED_PRIVATE_HOSTS = {}
  /\ pc = "oracle"
  /\ NoCall
  /\ call = "fetch_url"
  /\ force_raw = FALSE
  /\ other = NoFrame
  /\ NoTool
  /\ ip_str \in OracleInputs
  /\ verdict = FALSE
  /\ decoder_result = None

\* verdict = _is_ip_private_or_reserved(ip_str)
classify ==
  /\ pc = "oracle"
  /\ verdict' = _is_ip_private_or_reserved(ip_str)
  /\ pc' = "classified"
  /\ UNCHANGED << config, caller, url, validator, transport, getaddrinfo_calls, exc, response,
                  error, result, ip_str, decoder_result >>

NextOracle == classify

SpecOracle == InitOracle /\ [][NextOracle]_vars

(***************************************************************************)
(* _parse_obfuscated_ip called on its own: on the spellings of addresses,  *)
(* on tokens whose value is out of range, on ordinary host names and       *)
(* dotted quads, and on digit tokens with a leading zero.                  *)
(***************************************************************************)
\* c in upper case
UpperChar(c) ==
  CASE c = "a" -> "A" [] c = "b" -> "B" [] c = "c" -> "C" [] c = "d" -> "D"
    [] c = "e" -> "E" [] c = "f" -> "F" [] c = "g" -> "G" [] c = "h" -> "H"
    [] c = "i" -> "I" [] c = "j" -> "J" [] c = "k" -> "K" [] c = "l" -> "L"
    [] c = "m" -> "M" [] c = "n" -> "N" [] c = "o" -> "O" [] c = "p" -> "P"
    [] c = "q" -> "Q" [] c = "r" -> "R" [] c = "s" -> "S" [] c = "t" -> "T"
    [] c = "u" -> "U" [] c = "v" -> "V" [] c = "w" -> "W" [] c = "x" -> "X"
    [] c = "y" -> "Y" [] c = "z" -> "Z" [] OTHER -> c

RECURSIVE upper(_)
upper(s) == IF Len(s) = 0 THEN "" ELSE UpperChar(Ch(s, 1)) \o upper(SubSeq(s, 2, Len(s)))

\* the octet n as the dotted form takes it: hex, octal with its leading zero
HexOctet(n) == "0x" \o Digits32(0, n, 16)

OctalOctet(n) == "0" \o Digits32(0, n, 8)

DecimalOctet(n) == Digits32(0, n, 10)

\* the dotted spellings of the address with the octets o: every octet hex,
\* every octet octal, and one octet hex or octal among decimal ones
DottedSpellings(o) ==
  { HexOctet(o[1]) \o "." \o HexOctet(o[2]) \o "." \o HexOctet(o[3]) \o "." \o HexOctet(o[4]),
    OctalOctet(o[1]) \o "." \o OctalOctet(o[2]) \o "." \o OctalOctet(o[3]) \o "."
      \o OctalOctet(o[4]),
    HexOctet(o[1]) \o "." \o DecimalOctet(o[2]) \o "." \o DecimalOctet(o[3]) \o "."
      \o DecimalOctet(o[4]),
    DecimalOctet(o[1]) \o "." \o DecimalOctet(o[2]) \o "." \o DecimalOctet(o[3]) \o "."
      \o OctalOctet(o[4]),
    upper(HexOctet(o[1])) \o "." \o OctalOctet(o[2]) \o "." \o DecimalOctet(o[3]) \o "."
      \o HexOctet(o[4]) }

\* every obfuscated spelling of the address with the octets o
ObfuscatedSpellings(o) ==
  Spellings(o) \cup { upper(HexSpelling(o)), " " \o DecimalSpelling(o) \o " " }
    \cup DottedSpellings(o)

\* the addresses spelled
DecoderQuads ==
  { <<a, b, c, d>> : a \in { 0, 1, 8, 10, 127, 169, 192, 255 }, b \in { 0, 168, 254 },
                     c \in { 0, 169 }, d \in { 1, 254 } }
    \cup { <<0, 0, 0, 0>>, <<255, 255, 255, 255>>, <<8, 8, 8, 8>>, <<0, 0, 0, 8>>,
           <<0, 0, 1, 0>>, <<0, 1, 0, 0>>, <<1, 0, 0, 0>> }

\* tokens of a recognized form whose value is outside 0..0xFFFFFFFF, or one
\* of whose octets is outside 0..255
OutOfRangeTokens ==
  { "4294967296", "99999999999", "18446744073709551616", "040000000000",
    "077777777777", "0x100000000", "0X100000000", "0xffffffffff", "0x100.0.0.1",
    "0400.0.0.1", "0x7f.0.0.256", "0377.0.0.0x100", "0x7f.0.0.-1", "0x0.999.0.0" }

\* ordinary host names and tokens with a label that is not a number
PlainNames ==
  { "", "example.com", "not-an-ip", "0xcafe.com", "localhost", "a.b.c.d",
    "api.example.co.uk", "0x7f.0.0.x", "0x7f.0.0.", "0x.0.0.1", "0x", "0xzz", "7f000001",
    "1.2.3", "1.2.3.4.5", "127.1", "0x7f.1", "0177.0.1", "0x7f.0x0.0x0.0x1.", "::1",
    "0x7f 000001", "0o177.0.0.1", "0b1.0.0.1", "1e3", "12a" }

\* ordinary dotted IPv4 literals: no leading zero, no 0x
PlainQuads == { DottedQuad(o) : o \in DecoderQuads } \cup { "192.168.1.1", "256.1.1.1" }

\* digit tokens with a leading zero: octal ones, and ones with a digit 8 or 9
LeadingZeroTokens ==
  { "00", "01", "07", "010", "0177", "00000000001", "017700000001", "037777777777",
    "08", "09", "089", "0189", "00089", "0134744089", "08000000000", "09999999999" }

\* dotted tokens with a signed or padded part next to a hex or octal one
SignedParts == { "0x7f.0.0.+1", "0x7f.0.0.-0", "0177. 0 .0.1", "+0x7f.0.0.1", "0x7f.0.0.++1" }

DecoderInputs ==
  UNION { ObfuscatedSpellings(o) : o \in DecoderQuads }
    \cup OutOfRangeTokens \cup PlainNames \cup PlainQuads \cup LeadingZeroTokens
    \cup SignedParts

InitDecoder ==
  /\ ALLOW_PRIVATE_IPS = FALSE
  /\ ALLOWED_PRIVATE_HOSTS = {}
  /\ pc = "decode"
  /\ NoCall
  /\ call = "fetch_url"
  /\ force_raw = FALSE
  /\ other = NoFrame
  /\ NoTool
  /\ ip_str = None
  /\ verdict = FALSE
  /\ decoder_result = None

\* obfuscated_ip = _parse_obfuscated_ip(hostname), hostname any token
decode ==
  /\ pc = "decode"
  /\ hostname = None
  /\ \E h \in DecoderInputs :
       /\ hostname' = h
       /\ decoder_result' = _parse_obfuscated_ip(h)
  /\ pc' = "decoded"
  /\ UNCHANGED << config, caller, url, parsed, checks, resolved_ips, preflight,
                  preflight_public, transport, getaddrinfo_calls, exc, response, error,
                  result, ip_str, verdict >>

NextDecoder == decode

SpecDecoder == InitDecoder /\ [][NextDecoder]_vars

(***************************************************************************)
(* _is_hostname_blocked called on its own: on the blocklist's entries in   *)
(* every spelling that normalises to them, on their subdomains, and on     *)
(* names that only contain an entry.                                       *)
(***************************************************************************)
\* labels put in front of an entry, with their dot
SubdomainPrefixes == { "", "evil.", "a.b.", "sub.", "." }

\* the dots a fully qualified name ends with
TrailingDots == { "", ".", ".." }

\* the spellings of the blocklist's entries and of their subdomains
BlockedSpellings ==
  { pre \o b \o dots : pre \in SubdomainPrefixes, b \in BLOCKED_HOSTNAMES,
                       dots \in TrailingDots }
    \cup { upper(pre \o b) \o dots : pre \in SubdomainPrefixes, b \in BLOCKED_HOSTNAMES,
                                     dots \in TrailingDots }

\* names that contain an entry, or start with one, and are no subdomain of one
NearMisses ==
  UNION { { "not" \o b, b \o ".example.com", b \o "x", "x" \o b \o ".", "evil-" \o b,
            b \o ".evil.com.", upper(b) \o ".example.com", b \o " ", " " \o b,
            b \o ". ", b \o ".." \o "com" } : b \in BLOCKED_HOSTNAMES }
    \cup { "", ".", "example.com", "local", "host", "localdomain", "kubernetes",
           "kubernetes.defaul", "default.svc", "svc.cluster.local", "internal",
           "google.internal", "metadata", "metadata.google", "ip6", "127.0.0.1" }

BlocklistInputs == BlockedSpellings \cup NearMisses

InitBlocklist ==
  /\ ALLOW_PRIVATE_IPS = FALSE
  /\ ALLOWED_PRIVATE_HOSTS = {}
  /\ pc = "is_blocked"
  /\ NoCall
  /\ call = "fetch_url"
  /\ force_raw = FALSE
  /\ other = NoFrame
  /\ NoTool
  /\ ip_str = None
  /\ verdict = FALSE
  /\ decoder_result = None

\* verdict = _is_hostname_blocked(hostname), hostname any name
is_blocked ==
  /\ pc = "is_blocked"
  /\ hostname = None
  /\ \E h \in BlocklistInputs :
       /\ hostname' = h
       /\ verdict' = _is_hostname_blocked(h)
  /\ pc' = "blocked_or_not"
  /\ UNCHANGED << config, caller, url, parsed, checks, resolved_ips, preflight,
                  preflight_public, transport, getaddrinfo_calls, exc, response, error,
                  result, ip_str, decoder_result >>

NextBlocklist == is_blocked

SpecBlocklist == InitBlocklist /\ [][NextBlocklist]_vars

(***************************************************************************)
(* fetch_url from the response on: every status, content type and body,    *)
(* with force_raw either way.                                              *)
(***************************************************************************)
\* n blanks
RECURSIVE Blanks(_)
Blanks(n) == IF n = 0 THEN "" ELSE " " \o Blanks(n - 1)

StatusCodes == { 200, 204, 301, 399, 400, 404, 500 }

\* content types that name HTML, and none at all
HtmlContentTypes == { "", "text/html", "text/html; charset=utf-8" }

OtherContentTypes == { "application/json", "text/plain", "application/xhtml+xml", "Text/HTML" }

\* bodies with <html in their first 100 characters: at the start, after a
\* doctype, and ending at character 100
HtmlBodies ==
  { "<html><body>page</body></html>", "<!doctype html>\n<html lang=\"en\">",
    Blanks(95) \o "<html>" }

\* bodies without: no tag, the tag in upper case, the tag ending at character 101
OtherBodies == { "", "{\"a\": 1}", "<HTML><BODY>page</BODY></HTML>", Blanks(96) \o "<html>" }

Responses ==
  { Response(sc, ct, text) : sc \in StatusCodes,
                             ct \in HtmlContentTypes \cup OtherContentTypes,
                             text \in HtmlBodies \cup OtherBodies }

\* client.get() has returned a response
InitResponse ==
  /\ ALLOW_PRIVATE_IPS = FALSE
  /\ ALLOWED_PRIVATE_HOSTS = {}
  /\ pc = "received"
  /\ url = "http://8.8.8.8/"
  /\ parsed = urlparse("http://8.8.8.8/")
  /\ hostname = "8.8.8.8"
  /\ checks = << "scheme", "whitelist", "blocklist", "decoder", "literal" >>
  /\ resolved_ips = {}
  /\ preflight = "literal"
  /\ preflight_public = FALSE
  /\ addr_info = <<>>
  /\ resolved_ip = None
  /\ target = "8.8.8.8"
  /\ request = Request("http://8.8.8.8/", urlparse("http://8.8.8.8/"))
  /\ new_request = Request("http://8.8.8.8/", urlparse("http://8.8.8.8/"))
  /\ getaddrinfo_calls = NoCalls
  /\ connects = << "8.8.8.8" >>
  /\ exc = NoExc
  /\ response \in Responses
  /\ error = NoError
  /\ result = NoResult
  /\ call = "fetch_url"
  /\ force_raw \in BOOLEAN
  /\ other = NoFrame
  /\ SSL_VERIFY = TRUE
  /\ environ = Unset
  /\ clients = << [transport |-> "SSRFSafeTransport"] >>
  /\ transports = << [verify |-> TRUE] >>
  /\ handler = "none"
  /\ arguments = NoArguments
  /\ ignore_robots_txt = FALSE
  /\ reply = NoReply
  /\ received = <<>>
  /\ ip_str = None
  /\ verdict = FALSE
  /\ decoder_result = None

NextResponse == fetch_url_response

SpecResponse == InitResponse /\ [][NextResponse]_vars

(***************************************************************************)
(* check_may_autonomously_fetch_url: the robots.txt URL of the page goes   *)
(* through the same validator and the same transport; url is then the      *)
(* robots.txt URL.  SpecRobots calls either function.                      *)
(***************************************************************************)
\* urllib.parse.uses_netloc, without the empty scheme
UsesNetloc ==
  { "ftp", "http", "gopher", "nntp", "telnet", "imap", "wais", "file", "mms", "https",
    "shttp", "snews", "prospero", "rtsp", "rtspu", "rsync", "svn", "svn+ssh", "sftp",
    "nfs", "git", "git+ssh", "ws", "wss" }

\* urlunparse((p.scheme, p.netloc, "/robots.txt", "", "", ""))
RobotsUrlOf(p) ==
  (IF p.scheme # "" THEN p.scheme \o ":" ELSE "")
    \o (IF p.netloc # "" \/ p.scheme \in UsesNetloc THEN "//" \o p.netloc ELSE "")
    \o "/robots.txt"

get_robots_txt_url(u) == RobotsUrlOf(urlparse(u))

\* the pages whose robots.txt is checked
RobotsPages ==
  { "http://example.com/page?x=1#frag", "https://example.com:8443/a/b",
    "HTTP://Example.COM/Page", "http://user:pw@internal.corp/x", "http://localhost/",
    "http://169.254.169.254/latest/meta-data/", "http://2130706433/admin",
    "http://[::1]:8080/", "http://8.8.8.8", "ftp://example.com/file",
    "file:///etc/passwd", "data:text/html,x", "not-a-url", "//example.com/path",
    "http://[::1" }

RobotsRaises(message) ==
  McpError("check_may_autonomously_fetch_url", INTERNAL_ERROR, message)

\* robot_txt_url = get_robots_txt_url(url), p the page's urlparse
RobotsUrlStep(p) ==
  IF ~p.ok
  THEN /\ error' = [type |-> "ValueError", by |-> "get_robots_txt_url",
                    code |-> "none", message |-> "urlparse"]
       /\ pc' = "done"
       /\ url' = url
  ELSE /\ error' = error
       /\ pc' = "urlparse"
       /\ url' = RobotsUrlOf(p)

check_may_autonomously_fetch_url ==
  /\ pc = "idle"
  /\ call = "check_may_autonomously_fetch_url"
  /\ \E u \in RobotsPages : RobotsUrlStep(urlparse(u))
  /\ UNCHANGED << config, caller, validator, transport, getaddrinfo_calls, exc,
                  response, result, oracle >>

\* the except clauses around client.get() of the robots.txt URL
RobotsExceptClause(e) ==
  IF e.type = "ssl.SSLError" THEN RobotsRaises("SSL Certificate verification failed")
  ELSE IF e.type = "httpx.ConnectError"
  THEN IF instr(lower(e.text), "ssl") \/ instr(lower(e.text), "certificate")
            \/ instr(lower(e.text), "verify")
       THEN RobotsRaises("SSL Certificate verification failed")
       ELSE RobotsRaises("Failed to connect")
  ELSE IF e.type = "httpx.TimeoutException"
  THEN RobotsRaises("Failed to fetch robots.txt due to a connection issue")
  ELSE e

robots_except ==
  /\ pc = "except"
  /\ call = "check_may_autonomously_fetch_url"
  /\ error' = RobotsExceptClause(exc)
  /\ addr_info' = <<>>
  /\ pc' = "done"
  /\ UNCHANGED << config, caller, url, validator, resolved_ip, target, connects,
                  request, new_request, getaddrinfo_calls, exc, response, result,
                  oracle >>

\* the status of the robots.txt response, then what the file allows:
\* can_fetch is Protego's answer
RobotsResponseStep(can_fetch) ==
  IF response.status \in { 401, 403 }
  THEN RobotsRaises("received status so assuming that autonomous fetching is not allowed")
  ELSE IF response.status >= 400 /\ response.status < 500 THEN error
  ELSE IF ~can_fetch
  THEN RobotsRaises("robots.txt specifies that autonomous fetching is not allowed")
  ELSE error

robots_response ==
  /\ pc = "received"
  /\ call = "check_may_autonomously_fetch_url"
  /\ \E can_fetch \in BOOLEAN : error' = RobotsResponseStep(can_fetch)
  /\ pc' = "done"
  /\ UNCHANGED << config, caller, url, validator, transport, getaddrinfo_calls, exc,
                  response, result, oracle >>

InitRobots ==
  /\ ALLOW_PRIVATE_IPS \in BOOLEAN
  /\ ALLOWED_PRIVATE_HOSTS \in AllowlistChoices
  /\ pc = "idle"
  /\ NoCall
  /\ call \in { "fetch_url", "check_may_autonomously_fetch_url" }
  /\ force_raw = FALSE
  /\ other = NoFrame
  /\ NoTool
  /\ ip_str = None
  /\ verdict = FALSE
  /\ decoder_result = None

NextRobots ==
  \/ fetch_url
  \/ check_may_autonomously_fetch_url
  \/ validate_parse
  \/ validate_scheme
  \/ validate_hostname
  \/ validate_whitelist
  \/ validate_blocklist
  \/ validate_decoder
  \/ validate_literal
  \/ validate_resolve_fails
  \/ validate_resolve
  \/ transport_literal
  \/ transport_resolve_fails
  \/ transport_resolve
  \/ transport_delegate
  \/ fetch_url_except
  \/ fetch_url_response
  \/ robots_except
  \/ robots_response

SpecRobots == InitRobots /\ [][NextRobots]_vars

(***************************************************************************)
(* Two tool calls on the event loop.  A call runs until it awaits the real *)
(* transport or ends; then the server may start another call, or the loop  *)
(* may resume the suspended one.  The variables hold the frame of the call *)
(* that runs, `other` the frame of the call that does not.                 *)
(***************************************************************************)
\* the URLs of the calls: a name the resolver answers for, an address
CallUrls == { "http://example.com/", "http://10.0.0.5/" }

\* the locals of the running call
Frame ==
  [ pc |-> pc, url |-> url, parsed |-> parsed, hostname |-> hostname,
    checks |-> checks, resolved_ips |-> resolved_ips, preflight |-> preflight,
    preflight_public |-> preflight_public, addr_info |-> addr_info,
    resolved_ip |-> resolved_ip, target |-> target, request |-> request,
    new_request |-> new_request, call |-> call, force_raw |-> force_raw,
    getaddrinfo_calls |-> getaddrinfo_calls, connects |-> connects, exc |-> exc,
    response |-> response, error |-> error, result |-> result ]

\* the locals of fetch_url(u) as the call starts
FreshFrame(u) ==
  [ pc |-> "urlparse", url |-> u, parsed |-> NoParse, hostname |-> None,
    checks |-> <<>>, resolved_ips |-> {}, preflight |-> "none",
    preflight_public |-> FALSE, addr_info |-> <<>>,
    resolved_ip |-> None, target |-> None, request |-> NoRequest,
    new_request |-> NoRequest, call |-> "fetch_url", force_raw |-> FALSE,
    getaddrinfo_calls |-> NoCalls, connects |-> <<>>, exc |-> NoExc,
    response |-> NoResponse, error |-> NoError, result |-> NoResult ]

\* the frame f runs next
Resume(f) ==
  /\ pc' = f.pc
  /\ url' = f.url
  /\ parsed' = f.parsed
  /\ hostname' = f.hostname
  /\ checks' = f.checks
  /\ resolved_ips' = f.resolved_ips
  /\ preflight' = f.preflight
  /\ preflight_public' = f.preflight_public
  /\ addr_info' = f.addr_info
  /\ resolved_ip' = f.resolved_ip
  /\ target' = f.target
  /\ request' = f.request
  /\ new_request' = f.new_request
  /\ call' = f.call
  /\ force_raw' = f.force_raw
  /\ getaddrinfo_calls' = f.getaddrinfo_calls
  /\ connects' = f.connects
  /\ exc' = f.exc
  /\ response' = f.response
  /\ error' = f.error
  /\ result' = f.result

\* the running call has given up the loop: it awaits the real transport, or
\* it has ended
Yielded == pc \in { "delegate", "done" }

InitCalls ==
  /\ ALLOW_PRIVATE_IPS \in BOOLEAN
  /\ ALLOWED_PRIVATE_HOSTS \in AllowlistChoices
  /\ pc = "urlparse"
  /\ url \in CallUrls
  /\ parsed = NoParse
  /\ hostname = None
  /\ checks = <<>>
  /\ resolved_ips = {}
  /\ preflight = "none"
  /\ preflight_public = FALSE
  /\ addr_info = <<>>
  /\ resolved_ip = None
  /\ target = None
  /\ request = NoRequest
  /\ new_request = NoRequest
  /\ getaddrinfo_calls = NoCalls
  /\ connects = <<>>
  /\ exc = NoExc
  /\ response = NoResponse
  /\ error = NoError
  /\ result = NoResult
  /\ call = "fetch_url"
  /\ force_raw = FALSE
  /\ other = NoFrame
  /\ NoTool
  /\ ip_str = None
  /\ verdict = FALSE
  /\ decoder_result = None

\* the server gets a second tool call, and calls fetch_url for it
call_tool ==
  /\ other = NoFrame
  /\ Yielded
  /\ other' = Frame
  /\ \E u \in CallUrls : Resume(FreshFrame(u))
  /\ UNCHANGED << config, oracle, clients, transports, tool >>

\* the event loop resumes the suspended call
switch ==
  /\ other # NoFrame
  /\ other.pc = "delegate"
  /\ Yielded
  /\ other' = Frame
  /\ Resume(other)
  /\ UNCHANGED << config, oracle, clients, transports, tool >>

NextCalls ==
  \/ call_tool
  \/ switch
  \/ validate_parse
  \/ validate_scheme
  \/ validate_hostname
  \/ validate_whitelist
  \/ validate_blocklist
  \/ validate_decoder
  \/ validate_literal
  \/ validate_resolve_fails
  \/ validate_resolve
  \/ transport_literal
  \/ transport_resolve_fails
  \/ transport_resolve
  \/ transport_delegate
  \/ fetch_url_except
  \/ fetch_url_response

SpecCalls == InitCalls /\ [][NextCalls]_vars

(***************************************************************************)
(* The process from its import: SSL_VERIFY is read from the environment,   *)
(* then fetch_url is called for an https URL.                              *)
(***************************************************************************)
\* os.environ with MCP_FETCH_SSL_VERIFY=value
Env(value) == [set |-> TRUE, value |-> value]

\* os.getenv(key, default), e what the environment holds for the key
getenv(e, default) == IF e.set THEN e.value ELSE default

\* a setting that is off unless the value is a known "on"
ssl_verify_truthy(e) == lower(getenv(e, "true")) \in { "true", "1", "yes" }

\* os.getenv("MCP_FETCH_SSL_VERIFY", "true").lower() != "false"
ssl_verify(e) == lower(getenv(e, "true")) # "false"

\* "false" in every mix of upper and lower case
FalseSpellings ==
  { f \o a \o l \o s_ \o e_ :
      f \in {"f", "F"}, a \in {"a", "A"}, l \in {"l", "L"}, s_ \in {"s", "S"},
      e_ \in {"e", "E"} }

\* the values of MCP_FETCH_SSL_VERIFY tried
EnvValues ==
  { Unset } \cup { Env(v) : v \in FalseSpellings }
    \cup { Env(v) : v \in { "", "true", "True", "TRUE", "0", "1", "no", "yes", "off",
                            "invalid", "f", "fals", "falsee", " false", "false ",
                            "\"false\"", "not false", "n", "disabled" } }

\* the https URLs fetched: a name, an address
ClientUrls == { "https://self-signed.example.com", "https://8.8.8.8/" }

InitClient ==
  /\ ALLOW_PRIVATE_IPS = FALSE
  /\ ALLOWED_PRIVATE_HOSTS = {}
  /\ SSL_VERIFY = None
  /\ environ \in EnvValues
  /\ pc = "import"
  /\ NoCall
  /\ call = "fetch_url"
  /\ force_raw = FALSE
  /\ other = NoFrame
  /\ clients = <<>>
  /\ transports = <<>>
  /\ handler = "none"
  /\ arguments = NoArguments
  /\ ignore_robots_txt = FALSE
  /\ reply = NoReply
  /\ received = <<>>
  /\ ip_str = None
  /\ verdict = FALSE
  /\ decoder_result = None

\* the module is imported: SSL_VERIFY = ...
import_server ==
  /\ pc = "import"
  /\ SSL_VERIFY' = ssl_verify(environ)
  /\ pc' = "imported"
  /\ UNCHANGED << ALLOW_PRIVATE_IPS, ALLOWED_PRIVATE_HOSTS, environ, caller, url,
                  validator, transport, getaddrinfo_calls, exc, response, error,
                  result, oracle >>

\* fetch_url(url, ...) is called for an https URL
fetch_url_https ==
  /\ pc = "imported"
  /\ call = "fetch_url"
  /\ \E u \in ClientUrls : url' = u
  /\ pc' = "urlparse"
  /\ UNCHANGED << config, caller, validator, transport, getaddrinfo_calls, exc, response,
                  error, result, oracle >>

NextClient ==
  \/ import_server
  \/ fetch_url_https
  \/ validate_parse
  \/ validate_scheme
  \/ validate_hostname
  \/ validate_whitelist
  \/ validate_blocklist
  \/ validate_decoder
  \/ validate_literal
  \/ validate_resolve_fails
  \/ validate_resolve
  \/ transport_literal
  \/ transport_resolve_fails
  \/ transport_resolve
  \/ transport_delegate
  \/ fetch_url_except
  \/ fetch_url_response

SpecClient == InitClient /\ [][NextClient]_vars

(***************************************************************************)
(* The validator on a URL and then on the same URL with a dot after the    *)
(* host.  `other` keeps the frame of the first call.                       *)
(***************************************************************************)
\* hosts the validator refuses: dangerous IP literals, obfuscated tokens in
\* both cases, blocklisted names
TwinHosts ==
  { "127.0.0.1", "10.0.0.5", "169.254.169.254", "0.0.0.0", "2130706433",
    "0x7f000001", "0X7F000001", "017700000001", "0177.0.0.1", "0x7f.0.0.1",
    "0XA9FEA9FE", "localhost", "LOCALHOST", "Metadata.Google.Internal" }

\* the URL u = "http://host/" with a dot after the host
Dotted(u) == SubSeq(u, 1, Len(u) - 1) \o "./"

InitTwin ==
  /\ ALLOW_PRIVATE_IPS \in BOOLEAN
  /\ ALLOWED_PRIVATE_HOSTS \in AllowlistChoices
  /\ pc = "urlparse"
  /\ \E h \in TwinHosts : url = "http://" \o h \o "/"
  /\ parsed = NoParse
  /\ hostname = None
  /\ checks = <<>>
  /\ resolved_ips = {}
  /\ preflight = "none"
  /\ preflight_public = FALSE
  /\ addr_info = <<>>
  /\ resolved_ip = None
  /\ target = None
  /\ request = NoRequest
  /\ new_request = NoRequest
  /\ getaddrinfo_calls = NoCalls
  /\ connects = <<>>
  /\ exc = NoExc
  /\ response = NoResponse
  /\ error = NoError
  /\ result = NoResult
  /\ call = "fetch_url"
  /\ force_raw = FALSE
  /\ other = NoFrame
  /\ NoTool
  /\ ip_str = None
  /\ verdict = FALSE
  /\ decoder_result = None

\* the validator has returned or raised; the dotted URL is validated next
validate_dotted ==
  /\ other = NoFrame
  /\ pc \in { "validated", "done" }
  /\ other' = Frame
  /\ Resume(FreshFrame(Dotted(url)))
  /\ UNCHANGED << config, oracle, clients, transports, tool >>

NextTwin ==
  \/ validate_dotted
  \/ validate_parse
  \/ validate_scheme
  \/ validate_hostname
  \/ validate_whitelist
  \/ validate_blocklist
  \/ validate_decoder
  \/ validate_literal
  \/ validate_resolve_fails
  \/ validate_resolve

SpecTwin == InitTwin /\ [][NextTwin]_vars

(***************************************************************************)
(* call_tool after fetch_url has returned: the content is cut to the       *)
(* window the arguments name.  The client may call again with the          *)
(* start_index of the hint; the page is fetched again and has not changed. *)
(***************************************************************************)
\* the longest content
MaxContent == 7

\* the largest max_length, standing for Fetch's 999999
MaxLength == 4

\* str(n) of an int n >= 0
str(n) == Digits32(0, n, 10)

NoMoreContent == "<error>No more content available.</error>"

\* the text appended to a truncated content
TruncationHint(next_start) ==
  "\n\n<error>Content truncated. Call the fetch tool with a start_index of "
    \o str(next_start) \o " to get more content.</error>"

\* a slice that takes one character more
Slice_inclusive(content, start_index, max_length) ==
  SubSeq(content, start_index + 1,
         IF start_index + max_length + 1 < Len(content)
         THEN start_index + max_length + 1
         ELSE Len(content))

\* content[start_index : start_index + max_length], 0 <= start_index
Slice(content, start_index, max_length) ==
  SubSeq(content, start_index + 1,
         IF start_index + max_length < Len(content) THEN start_index + max_length
         ELSE Len(content))

\* a hint for every slice that is full, even when nothing is left after it
Truncated_hint_when_full(content, start_index, max_length, truncated_content) ==
  IF truncated_content = ""
  THEN [content |-> NoMoreContent, hint |-> FALSE, next_start |-> 0]
  ELSE IF Len(truncated_content) = max_length
  THEN [content |-> truncated_content
                      \o TruncationHint(start_index + Len(truncated_content)),
        hint |-> TRUE, next_start |-> start_index + Len(truncated_content)]
  ELSE [content |-> truncated_content, hint |-> FALSE, next_start |-> 0]

\* the branch of start_index < original_length: the content of the reply,
\* and the next_start the hint names when there is one
Truncated(content, start_index, max_length, truncated_content) ==
  IF truncated_content = ""
  THEN [content |-> NoMoreContent, hint |-> FALSE, next_start |-> 0]
  ELSE IF /\ Len(truncated_content) = max_length
          /\ Len(content) - (start_index + Len(truncated_content)) > 0
  THEN [content |-> truncated_content
                      \o TruncationHint(start_index + Len(truncated_content)),
        hint |-> TRUE, next_start |-> start_index + Len(truncated_content)]
  ELSE [content |-> truncated_content, hint |-> FALSE, next_start |-> 0]

\* the window of the content call_tool returns
Window(content, start_index, max_length) ==
  IF start_index >= Len(content)
  THEN [content |-> NoMoreContent, hint |-> FALSE, next_start |-> 0]
  ELSE Truncated(content, start_index, max_length,
                 Slice(content, start_index, max_length))

\* TextContent(type="text", text=f"{prefix}Contents of {url}:\n{content}")
TextContent(prefix, u, content) ==
  [kind |-> "text", text |-> prefix \o "Contents of " \o u \o ":\n" \o content]

\* Fetch(url, max_length, start_index, raw)
Fetch(u, max_length, start_index, raw) ==
  [given |-> TRUE, url |-> u, max_length |-> max_length, start_index |-> start_index,
   raw |-> raw]

\* the contents fetched: every length up to MaxContent
Contents == { SubSeq("abcdefghijklmnop", 1, n) : n \in 0..MaxContent }

\* the prefixes fetch_url returns with a content
Prefixes == { "", RawPrefix("application/json") }

InitPages ==
  /\ ALLOW_PRIVATE_IPS = FALSE
  /\ ALLOWED_PRIVATE_HOSTS = {}
  /\ SSL_VERIFY = TRUE
  /\ environ = Unset
  /\ pc = "truncate"
  /\ url = "http://8.8.8.8/"
  /\ parsed = urlparse("http://8.8.8.8/")
  /\ hostname = "8.8.8.8"
  /\ checks = << "scheme", "whitelist", "blocklist", "decoder", "literal" >>
  /\ resolved_ips = {}
  /\ preflight = "literal"
  /\ preflight_public = FALSE
  /\ addr_info = <<>>
  /\ resolved_ip = None
  /\ target = "8.8.8.8"
  /\ request = Request("http://8.8.8.8/", urlparse("http://8.8.8.8/"))
  /\ new_request = Request("http://8.8.8.8/", urlparse("http://8.8.8.8/"))
  /\ getaddrinfo_calls = NoCalls
  /\ connects = << "8.8.8.8" >>
  /\ exc = NoExc
  /\ \E content \in Contents, prefix \in Prefixes :
       /\ response = Response(200, IF prefix = "" THEN "" ELSE "application/json", content)
       /\ result = Returns(content, prefix)
       /\ force_raw = (prefix # "")
  /\ error = NoError
  /\ call = "fetch_url"
  /\ other = NoFrame
  /\ clients = << [transport |-> "SSRFSafeTransport"] >>
  /\ transports = << [verify |-> TRUE] >>
  /\ handler = "call_tool"
  /\ \E max_length \in 1..MaxLength, start_index \in 0..(MaxContent + 1) :
       arguments = Fetch(url, max_length, start_index, force_raw)
  /\ ignore_robots_txt = TRUE
  /\ reply = NoReply
  /\ received = <<>>
  /\ ip_str = None
  /\ verdict = FALSE
  /\ decoder_result = None

\* what the client keeps of a reply
Received(start_index, window) ==
  [start_index |-> start_index, hint |-> window.hint, next_start |-> window.next_start,
   content |-> window.content]

\* the reply with the window w of the content
TruncateStep(w) ==
  /\ reply' = TextContent(result.prefix, url, w.content)
  /\ received' = Append(received, Received(arguments.start_index, w))

\* call_tool from fetch_url's return to its own
call_tool_truncate ==
  /\ pc = "truncate"
  /\ handler = "call_tool"
  /\ TruncateStep(Window(result.content, arguments.start_index, arguments.max_length))
  /\ pc' = "replied"
  /\ UNCHANGED << config, validator, transport, call, force_raw, other, clients,
                  transports, handler, arguments, ignore_robots_txt, url,
                  getaddrinfo_calls, exc, response, error, result, oracle >>

\* the client calls the tool again for the rest, with the start_index the
\* hint names; the page is fetched again, the same
call_tool_again ==
  /\ pc = "replied"
  /\ handler = "call_tool"
  /\ received[Len(received)].hint
  /\ arguments' = [arguments EXCEPT !.start_index = received[Len(received)].next_start]
  /\ reply' = NoReply
  /\ pc' = "truncate"
  /\ UNCHANGED << config, validator, transport, call, force_raw, other, clients,
                  transports, handler, ignore_robots_txt, received, url,
                  getaddrinfo_calls, exc, response, error, result, oracle >>

NextPages ==
  \/ call_tool_truncate
  \/ call_tool_again

SpecPages == InitPages /\ [][NextPages]_vars

\* a client that goes on asking as long as a hint tells it to
SpecPagesFair == SpecPages /\ WF_vars(NextPages)

(***************************************************************************)
(* The server's handlers, call_tool and get_prompt, from the request to    *)
(* the reply.  A dict of arguments is a record with the keys it holds;     *)
(* once check_may_autonomously_fetch_url has returned, `other` keeps its   *)
(* frame while fetch_url runs.                                             *)
(***************************************************************************)
\* the handler raises e
ToolRaises(e) == [kind |-> "raised", error |-> e]

\* GetPromptResult(description, messages=[PromptMessage(role="user", text)])
GetPromptResult(description, text) ==
  [kind |-> "prompt", description |-> description, text |-> text]

\* str(AnyUrl(u)) for a URL scheme://authority[/path] without credentials:
\* scheme and host in lower case, and the path "/" when u has none
AnyUrlStr(u) ==
  LET colon == find(u, ":")
      rest  == SubSeq(u, colon + 3, Len(u))
  IN  lower(SubSeq(u, 1, colon + 2))
        \o (IF find(rest, "/") = 0 THEN lower(rest) \o "/"
            ELSE lower(Before(rest, "/")) \o "/" \o After(rest, "/"))

\* Fetch(**arguments) validates: url is an AnyUrl, 0 < max_length < 1000000,
\* 0 <= start_index
FetchValid(a) ==
  /\ a.given
  /\ "url" \in DOMAIN a
  /\ instr(a.url, "://")
  /\ find(a.url, ":") > 1
  /\ a.max_length > 0
  /\ a.max_length < 1000000
  /\ a.start_index >= 0

\* the pages the handlers are asked for
ToolUrls ==
  { "http://Example.com/page", "http://8.8.8.8", "http://localhost/admin",
    "ftp://example.com/file" }

\* the arguments of the fetch tool
ToolArguments ==
  { Fetch(u, 5, 0, FALSE) : u \in ToolUrls }
    \cup { Fetch("http://8.8.8.8", 3, 2, TRUE),
           Fetch("not-a-url", 5, 0, FALSE),
           Fetch("http://8.8.8.8", 0, 0, FALSE),
           Fetch("http://8.8.8.8", 1000000, 0, FALSE),
           Fetch("http://8.8.8.8", 5, -1, FALSE),
           [given |-> TRUE, max_length |-> 5, start_index |-> 0, raw |-> FALSE] }

\* the arguments of the fetch prompt: none, without a url, with one
PromptArguments ==
  { NoArguments, [given |-> TRUE] }
    \cup { [given |-> TRUE, url |-> u] : u \in ToolUrls \cup { "", "http://[::1" } }

\* the frame of check_may_autonomously_fetch_url(u, ...) once the robots.txt
\* URL is built
RobotsFrame(u) ==
  IF ~urlparse(u).ok
  THEN [FreshFrame(u) EXCEPT
          !.call = "check_may_autonomously_fetch_url", !.pc = "done",
          !.error = [type |-> "ValueError", by |-> "get_robots_txt_url",
                     code |-> "none", message |-> "urlparse"]]
  ELSE [FreshFrame(get_robots_txt_url(u)) EXCEPT
          !.call = "check_may_autonomously_fetch_url"]

\* the frame of fetch_url(u, ..., force_raw=raw)
FetchFrame(u, raw) == [FreshFrame(u) EXCEPT !.force_raw = raw]

\* the handler is left with the reply r
Replies(r) ==
  /\ reply' = r
  /\ Resume([Frame EXCEPT !.pc = "replied"])

InitTool ==
  /\ ALLOW_PRIVATE_IPS = FALSE
  /\ ALLOWED_PRIVATE_HOSTS = {}
  /\ SSL_VERIFY = TRUE
  /\ environ = Unset
  /\ pc = "handler"
  /\ NoCall
  /\ call = "none"
  /\ force_raw = FALSE
  /\ other = NoFrame
  /\ clients = <<>>
  /\ transports = <<>>
  /\ \/ handler = "call_tool" /\ arguments \in ToolArguments
     \/ handler = "get_prompt" /\ arguments \in PromptArguments
  /\ ignore_robots_txt \in BOOLEAN
  /\ reply = NoReply
  /\ received = <<>>
  /\ ip_str = None
  /\ verdict = FALSE
  /\ decoder_result = None

\* call_tool from its entry to its first await: the arguments are
\* validated, then the robots.txt check or, without it, the fetch starts
call_tool_arguments ==
  /\ pc = "handler"
  /\ handler = "call_tool"
  /\ IF ~FetchValid(arguments)
     THEN Replies(ToolRaises(McpError("call_tool", INVALID_PARAMS, "str(e)")))
     ELSE IF AnyUrlStr(arguments.url) = ""
     THEN Replies(ToolRaises(McpError("call_tool", INVALID_PARAMS, "URL is required")))
     ELSE IF ~ignore_robots_txt
     THEN Resume(RobotsFrame(AnyUrlStr(arguments.url))) /\ reply' = reply
     ELSE Resume(FetchFrame(AnyUrlStr(arguments.url), arguments.raw)) /\ reply' = reply
  /\ UNCHANGED << config, other, clients, transports, handler, arguments,
                  ignore_robots_txt, received, oracle >>

\* a call_tool that fetches whatever the robots.txt check raised
call_tool_fetch_whatever ==
  /\ pc = "done"
  /\ handler = "call_tool"
  /\ call = "check_may_autonomously_fetch_url"
  /\ other' = Frame
  /\ Resume(FetchFrame(AnyUrlStr(arguments.url), arguments.raw))
  /\ reply' = reply
  /\ UNCHANGED << config, clients, transports, handler, arguments, ignore_robots_txt,
                  received, oracle >>

\* check_may_autonomously_fetch_url has ended: what it raised leaves
\* call_tool, and when it returned fetch_url starts
call_tool_fetch ==
  /\ pc = "done"
  /\ handler = "call_tool"
  /\ call = "check_may_autonomously_fetch_url"
  /\ IF error # NoError
     THEN Replies(ToolRaises(error)) /\ other' = other
     ELSE /\ other' = Frame
          /\ Resume(FetchFrame(AnyUrlStr(arguments.url), arguments.raw))
          /\ reply' = reply
  /\ UNCHANGED << config, clients, transports, handler, arguments, ignore_robots_txt,
                  received, oracle >>

\* fetch_url has ended: what it raised leaves call_tool, and what it
\* returned is cut to the window asked for
call_tool_returns ==
  /\ pc = "done"
  /\ handler = "call_tool"
  /\ call = "fetch_url"
  /\ IF error # NoError
     THEN reply' = ToolRaises(error) /\ received' = received
     ELSE TruncateStep(Window(result.content, arguments.start_index,
                              arguments.max_length))
  /\ pc' = "replied"
  /\ UNCHANGED << config, validator, transport, call, force_raw, other, clients,
                  transports, handler, arguments, ignore_robots_txt, url,
                  getaddrinfo_calls, exc, response, error, result, oracle >>

\* get_prompt from its entry to its await of fetch_url
get_prompt_arguments ==
  /\ pc = "handler"
  /\ handler = "get_prompt"
  /\ IF ~arguments.given \/ "url" \notin DOMAIN arguments
     THEN Replies(ToolRaises(McpError("get_prompt", INVALID_PARAMS, "URL is required")))
     ELSE Resume(FetchFrame(arguments.url, FALSE)) /\ reply' = reply
  /\ UNCHANGED << config, other, clients, transports, handler, arguments,
                  ignore_robots_txt, received, oracle >>

\* a get_prompt that lets the validator's errors through
PromptReply_reraises(e) ==
  IF e = NoError
  THEN GetPromptResult("Contents of " \o url, result.prefix \o result.content)
  ELSE IF e.type = "McpError" /\ e.by # "validate_url_for_ssrf"
  THEN GetPromptResult("Failed to fetch " \o url, e.message)
  ELSE ToolRaises(e)

\* what get_prompt does with the end of fetch_url, e what it raised: the
\* except clause takes an McpError, and nothing else
PromptReply(e) ==
  IF e = NoError
  THEN GetPromptResult("Contents of " \o url, result.prefix \o result.content)
  ELSE IF e.type = "McpError"
  THEN GetPromptResult("Failed to fetch " \o url, e.message)
  ELSE ToolRaises(e)

get_prompt_returns ==
  /\ pc = "done"
  /\ handler = "get_prompt"
  /\ call = "fetch_url"
  /\ reply' = PromptReply(error)
  /\ pc' = "replied"
  /\ UNCHANGED << config, validator, transport, call, force_raw, other, clients,
                  transports, handler, arguments, ignore_robots_txt, received, url,
                  getaddrinfo_calls, exc, response, error, result, oracle >>

NextTool ==
  \/ call_tool_arguments
  \/ call_tool_fetch
  \/ call_tool_returns
  \/ get_prompt_arguments
  \/ get_prompt_returns
  \/ validate_parse
  \/ validate_scheme
  \/ validate_hostname
  \/ validate_whitelist
  \/ validate_blocklist
  \/ validate_decoder
  \/ validate_literal
  \/ validate_resolve_fails
  \/ validate_resolve
  \/ transport_literal
  \/ transport_resolve_fails
  \/ transport_resolve
  \/ transport_delegate
  \/ fetch_url_except
  \/ fetch_url_response
  \/ robots_except
  \/ robots_response

SpecTool == InitTool /\ [][NextTool]_vars

(***************************************************************************)
(* The properties of the request-validation and connection-safety layer.   *)
(***************************************************************************)
\* the host of the call is on the allowlist
Allowlisted == hostname # None /\ _normalize_hostname(hostname) \in ALLOWED_PRIVATE_HOSTS

\* the error SSRFSafeTransport raises for a dangerous address at connection time
RebindingDetected ==
  McpError("SSRFSafeTransport", INVALID_PARAMS, "DNS rebinding protection")

\* the messages of the errors validate_url_for_ssrf raises
PreflightMessages ==
  { "Invalid URL format", "URL scheme is not allowed",
    "URL must contain a valid hostname", "Access to hostname is blocked",
    "Access to obfuscated private IP address is blocked",
    "Access to private/internal IP address is blocked",
    "Failed to resolve hostname",
    "Hostname resolves to private/internal IP address" }

\* C1: with ALLOW_PRIVATE_IPS false and a host that is not on the allowlist,
\* whatever the validator's and the transport's resolvers answered, every
\* address the real transport is asked to connect to is one that
\* _is_ip_private_or_reserved classifies safe; when the host is a name, it
\* is the one address SSRFSafeTransport resolved and classified in this
\* request, and no name is resolved between the classification and the connect.
C1_ConnectsOnlyToClassifiedSafeAddress ==
  (~ALLOW_PRIVATE_IPS /\ ~Allowlisted /\ connects # <<>>) =>
    /\ \A i \in 1..Len(connects) : ~_is_ip_private_or_reserved(connects[i])
    /\ getaddrinfo_calls.connection = 0
    /\ ip_address(hostname) = NoAddr =>
         /\ connects = <<resolved_ip>>
         /\ getaddrinfo_calls.transport = 1

\* C1's case: a name whose validator-time answer and transport-time answer
\* are both public, fetched from the address the transport resolved
C1_Witness ==
  /\ ~ALLOW_PRIVATE_IPS
  /\ hostname = "example.com"
  /\ preflight = "dns"
  /\ resolved_ip = "2606:2800:220:1::1"
  /\ connects = <<"2606:2800:220:1::1">>
  /\ result.returned

\* C2, as the code has it: when the validator's resolution of a host name
\* returned only public addresses, ALLOW_PRIVATE_IPS is false, and the
\* address SSRFSafeTransport takes from its own later resolution (the first
\* of the answer, the one it would connect to) is dangerous, then
\* handle_async_request raises the rebinding error before it delegates, no
\* connection is opened, and fetch_url raises that same error: it is none of
\* the validator's errors and is not rewrapped as a TLS, connect or HTTP failure.
C2_RebindingDetectedAndSurfaced ==
  (/\ ~ALLOW_PRIVATE_IPS
   /\ preflight = "dns"
   /\ preflight_public
   /\ resolved_ip # None
   /\ _is_ip_private_or_reserved(resolved_ip)) =>
    /\ pc \in {"except", "done"}
    /\ connects = <<>>
    /\ target = None
    /\ response = NoResponse
    /\ pc = "except" => exc = RebindingDetected
    /\ pc = "done" => error = RebindingDetected
    /\ RebindingDetected.message \notin PreflightMessages

\* C2's case: public at validation, the metadata address at connection time
C2_Witness ==
  /\ ~ALLOW_PRIVATE_IPS
  /\ preflight = "dns"
  /\ preflight_public
  /\ resolved_ip = "169.254.169.254"
  /\ pc = "done"
  /\ error = RebindingDetected

\* C2, as the specification states it: the rebinding error is raised whenever
\* the transport's resolution returns a dangerous address, wherever in the
\* answer it stands
C2_AsStated ==
  (/\ ~ALLOW_PRIVATE_IPS
   /\ preflight = "dns"
   /\ preflight_public
   /\ \E i \in 1..Len(addr_info) : _is_ip_private_or_reserved(addr_info[i])) =>
    /\ pc = "except"
    /\ exc = RebindingDetected
    /\ connects = <<>>

\* the validator is at work
ValidatorPcs ==
  { "urlparse", "scheme", "hostname", "whitelist", "blocklist", "decoder",
    "literal", "resolve" }

\* validate_url_for_ssrf has returned or raised
ValidatorFinished == pc \notin ValidatorPcs \cup {"idle"}

\* validate_url_for_ssrf has just returned, or has raised
ValidatorDecided == pc = "validated" \/ (pc = "done" /\ preflight = "none")

\* C3, as the specification states it: with ALLOW_PRIVATE_IPS false, the
\* fetch of an http or https URL whose normalized hostname is on the
\* allowlist is rejected by no blocklist, decoder, classification or DNS
\* check of the validator or of the transport, even when the host is on the
\* blocklist or resolves to a private address: once a resolver has answered
\* with an address, the request reaches the real transport.
C3_AllowlistBypassesEveryCheck ==
  (/\ ~ALLOW_PRIVATE_IPS
   /\ Allowlisted
   /\ parsed.ok
   /\ parsed.scheme \in {"http", "https"}) =>
    /\ ValidatorFinished => preflight = "whitelist"
    /\ exc # RebindingDetected
    /\ error # RebindingDetected
    /\ (pc = "done" /\ resolved_ip # None) => connects # <<>>

\* C3's case in the validator: a host on the allowlist and on the blocklist
\* passes validate_url_for_ssrf at the allowlist check
C3_Witness ==
  /\ ~ALLOW_PRIVATE_IPS
  /\ hostname = "localhost"
  /\ "localhost" \in ALLOWED_PRIVATE_HOSTS
  /\ pc = "validated"
  /\ preflight = "whitelist"
  /\ checks = <<"scheme", "whitelist">>

\* the URLs of the inputs whose scheme is neither http nor https
NonHttpUrls == OtherSchemeUrls

CheckOrder == << "scheme", "whitelist", "blocklist", "decoder", "literal", "dns" >>

IsPrefix(a, b) == Len(a) <= Len(b) /\ a = SubSeq(b, 1, Len(a))

\* what the validator did: it accepted, or the message of its error
ValidatorOutcome == IF preflight # "none" THEN "accept" ELSE error.message

\* the check decides the call's URL under the call's configuration
Decides(check) ==
  CASE check = "scheme" -> parsed.scheme \notin {"http", "https"} \/ parsed.hostname = None
    [] check = "whitelist" -> _normalize_hostname(parsed.hostname) \in ALLOWED_PRIVATE_HOSTS
    [] check = "blocklist" -> _is_hostname_blocked(parsed.hostname)
    [] check = "decoder" -> _parse_obfuscated_ip(parsed.hostname) # None
    [] check = "literal" -> ip_address(parsed.hostname) # NoAddr
    [] check = "dns" -> TRUE

\* the outcomes the check can give when it decides
Decision(check) ==
  CASE check = "scheme" ->
         IF parsed.scheme \notin {"http", "https"} THEN {"URL scheme is not allowed"}
         ELSE {"URL must contain a valid hostname"}
    [] check = "whitelist" -> {"accept"}
    [] check = "blocklist" -> {"Access to hostname is blocked"}
    [] check = "decoder" ->
         IF ~ALLOW_PRIVATE_IPS
              /\ _is_ip_private_or_reserved(_parse_obfuscated_ip(parsed.hostname))
         THEN {"Access to obfuscated private IP address is blocked"}
         ELSE {"accept"}
    [] check = "literal" ->
         IF ~ALLOW_PRIVATE_IPS
              /\ _is_ip_private_or_reserved(IpToStr(ip_address(parsed.hostname)))
         THEN {"Access to private/internal IP address is blocked"}
         ELSE {"accept"}
    [] check = "dns" ->
         {"accept", "Failed to resolve hostname",
          "Hostname resolves to private/internal IP address"}

\* the place in CheckOrder of the first check that decides
FirstDeciding ==
  CHOOSE k \in 1..Len(CheckOrder) :
    Decides(CheckOrder[k]) /\ \A j \in 1..(k - 1) : ~Decides(CheckOrder[j])

\* C5: validate_url_for_ssrf makes its checks in the order scheme, allowlist,
\* blocklist, obfuscated-IP decoder, literal IP, DNS resolution; its outcome
\* (accept, or which error) is that of the first check in this order that
\* decides the URL, and no later check is made: a name is resolved only when
\* no earlier check decided.  http://localhost/ gives the blocklist error,
\* http://127.0.0.1/ the private-IP error, an all-digit host the
\* obfuscated-IP error.
C5_FirstDecidingCheckWins ==
  /\ IsPrefix(checks, CheckOrder)
  /\ getaddrinfo_calls.validator = (IF checks = CheckOrder THEN 1 ELSE 0)
  /\ (ValidatorDecided /\ parsed.ok) =>
       \E k \in {FirstDeciding} :
         /\ checks = SubSeq(CheckOrder, 1, k)
         /\ ValidatorOutcome \in Decision(CheckOrder[k])
  /\ ValidatorFinished =>
       (preflight = "none") = (pc = "done" /\ error.code = INVALID_PARAMS
                                /\ error.by = "validate_url_for_ssrf")
  /\ (ValidatorDecided /\ url = "http://localhost/" /\ ALLOWED_PRIVATE_HOSTS = {}) =>
       ValidatorOutcome = "Access to hostname is blocked"
  /\ (ValidatorDecided /\ url = "http://127.0.0.1/" /\ ~ALLOW_PRIVATE_IPS) =>
       ValidatorOutcome = "Access to private/internal IP address is blocked"
  /\ (ValidatorDecided /\ url = "http://2130706433/" /\ ~ALLOW_PRIVATE_IPS) =>
       ValidatorOutcome = "Access to obfuscated private IP address is blocked"

\* C5's case: an all-digit host decided by the decoder, the fourth check;
\* the literal-IP check and the resolution are not made
C5_Witness ==
  /\ url = "http://2130706433/"
  /\ ~ALLOW_PRIVATE_IPS
  /\ pc = "done"
  /\ checks = <<"scheme", "whitelist", "blocklist", "decoder">>
  /\ error.message = "Access to obfuscated private IP address is blocked"
  /\ getaddrinfo_calls = NoCalls

\* hosts the validator must refuse: names on the blocklist, dangerous IP
\* literals, the integer spellings of internal IPv4 addresses
RefusedHosts ==
  { "localhost", "metadata.google.internal", "kubernetes.default.svc" }
    \cup { "127.0.0.1", "10.0.0.5", "169.254.169.254", "0.0.0.0",
           "[::1]", "[::ffff:127.0.0.1]", "[fd00:ec2::254]" }
    \cup UNION { Spellings(o) : o \in InternalQuads }

\* the URLs of these hosts, with and without a port, userinfo, a path and a query
RefusedUrls ==
  { MkUrl("http", host, d) : host \in RefusedHosts, d \in UrlDecorations }
    \cup { MkUrl("https", host, <<"", "", "/">>) : host \in RefusedHosts }

\* C6: with ALLOW_PRIVATE_IPS false and an empty allowlist,
\* validate_url_for_ssrf rejects every http or https URL whose host is a
\* blocklisted name, a dangerous IP literal (IPv4, bracketed IPv6,
\* IPv4-mapped IPv6) or a decimal, octal or hex spelling of a dangerous IPv4
\* address, whatever the URL's port, userinfo, path and query are.
C6_InternalHostsRefused ==
  /\ RefusedUrls \subseteq Urls
  /\ (/\ ~ALLOW_PRIVATE_IPS
      /\ ALLOWED_PRIVATE_HOSTS = {}
      /\ url \in RefusedUrls
      /\ ValidatorFinished) =>
       /\ pc = "done"
       /\ preflight = "none"
       /\ error.type = "McpError"
       /\ error.by = "validate_url_for_ssrf"
       /\ error.code = INVALID_PARAMS
       /\ error.message \in { "Access to hostname is blocked",
                              "Access to obfuscated private IP address is blocked",
                              "Access to private/internal IP address is blocked" }
       /\ connects = <<>>

\* C6's case: the octal spelling of the metadata address behind userinfo, a
\* port, a path and a query
C6_Witness ==
  /\ ~ALLOW_PRIVATE_IPS
  /\ ALLOWED_PRIVATE_HOSTS = {}
  /\ url = "http://admin@025177524776:80/latest/meta-data/?a=1#top"
  /\ pc = "done"
  /\ error.message = "Access to obfuscated private IP address is blocked"

\* the validator's resolver answered (it did not fail) and the validator decided
ResolverAnswered ==
  /\ checks = CheckOrder
  /\ getaddrinfo_calls.failed # "validator"
  /\ pc = "validated" \/ (pc = "done" /\ preflight = "none")

\* C7: for a hostname that reaches the DNS step with ALLOW_PRIVATE_IPS false,
\* the validator rejects the URL if at least one address of the resolver's
\* answer, of either family, is classified dangerous, even when other
\* addresses of the answer are public; it accepts only if every one is safe.
C7_AnyDangerousAddressRejects ==
  (~ALLOW_PRIVATE_IPS /\ ResolverAnswered) =>
    /\ (\E ip \in resolved_ips : _is_ip_private_or_reserved(ip)) =>
         /\ pc = "done"
         /\ preflight = "none"
         /\ error = McpError("validate_url_for_ssrf", INVALID_PARAMS,
                             "Hostname resolves to private/internal IP address")
    /\ (\A ip \in resolved_ips : ~_is_ip_private_or_reserved(ip)) =>
         /\ pc = "validated"
         /\ preflight = "dns"
         /\ error = NoError

\* C7's case: an answer with a public IPv6 address and an internal IPv4 one
C7_Witness ==
  /\ ~ALLOW_PRIVATE_IPS
  /\ ResolverAnswered
  /\ resolved_ips = {"2606:2800:220:1::1", "10.0.0.5"}
  /\ pc = "done"
  /\ error.message = "Hostname resolves to private/internal IP address"

\* the error of a failed resolution, raised by the validator or the transport
ResolutionFailed(by) == McpError(by, INVALID_PARAMS, "Failed to resolve hostname")

\* C8: when the resolver fails in validate_url_for_ssrf or in
\* SSRFSafeTransport, the operation raises a resolution-failure error and
\* the host is never taken for safe: the validator does not return, the
\* transport opens no connection, whatever ALLOW_PRIVATE_IPS is.
C8_ResolutionFailureRaises ==
  /\ getaddrinfo_calls.failed = "validator" =>
       /\ pc = "done"
       /\ preflight = "none"
       /\ error = ResolutionFailed("validate_url_for_ssrf")
       /\ connects = <<>>
       /\ result = NoResult
  /\ getaddrinfo_calls.failed = "transport" =>
       /\ pc \in {"except", "done"}
       /\ target = None
       /\ connects = <<>>
       /\ result = NoResult
       /\ pc = "except" => exc = ResolutionFailed("SSRFSafeTransport")
       /\ pc = "done" => error = ResolutionFailed("SSRFSafeTransport")

\* C8's case: the transport's resolver fails with ALLOW_PRIVATE_IPS true
C8_Witness ==
  /\ ALLOW_PRIVATE_IPS
  /\ getaddrinfo_calls.failed = "transport"
  /\ pc = "done"
  /\ error = ResolutionFailed("SSRFSafeTransport")

\* the IPv4 addresses of the categories, by their octets: loopback (127/8),
\* private (RFC 1918), link-local (169.254/16), multicast (224/4), reserved
\* (240/4), unspecified, cloud metadata
DangerousQuad(o) ==
  \/ o[1] = 127
  \/ o[1] = 10
  \/ o[1] = 172 /\ o[2] \in 16..31
  \/ o[1] = 192 /\ o[2] = 168
  \/ o[1] = 169 /\ o[2] = 254
  \/ o[1] \in 224..239
  \/ o[1] \in 240..255
  \/ o = <<0, 0, 0, 0>>
  \/ o \in { <<169, 254, 169, 254>>, <<169, 254, 170, 2>> }

\* the IPv6 literals of the categories
DangerousV6 ==
  { "::1", "fe80::1", "febf::1", "fc00::1", "fd12:3456:789a::1", "ff02::1",
    "ff05::2", "::", "fd00:ec2::254" }

\* public addresses
PublicLiterals ==
  { "8.8.8.8", "1.1.1.1", "93.184.216.34", "2606:4700:4700::1111",
    "2001:4860:4860::8888" }

\* C9: _is_ip_private_or_reserved gives a verdict for every input; the
\* verdict is dangerous for every IPv4 and IPv6 literal that is loopback,
\* link-local, private (RFC 1918, unique-local), reserved, multicast,
\* unspecified or a cloud-metadata address, dangerous for every input that
\* is no IP address, and safe for public addresses such as 8.8.8.8 and 1.1.1.1.
C9_ClassifierFailsClosed ==
  /\ PublicLiterals \cup DangerousV6 \cup OracleNoAddress \subseteq OracleInputs
  /\ pc = "classified" =>
       /\ verdict \in BOOLEAN
       /\ verdict = _is_ip_private_or_reserved(ip_str)
       /\ \A o \in OracleQuads : (ip_str = DottedQuad(o) /\ DangerousQuad(o)) => verdict
       /\ ip_str \in DangerousV6 => verdict
       /\ ip_str \in OracleNoAddress => verdict
       /\ ip_str \in PublicLiterals => ~verdict

\* C9's case: text that is no address, classified dangerous
C9_Witness ==
  /\ pc = "classified"
  /\ ip_str = "256.1.1.1"
  /\ verdict

\* C10, as the specification states it: for every IPv4 address a.b.c.d the
\* verdict for ::ffff:a.b.c.d equals the verdict for a.b.c.d; mapped forms
\* of dangerous addresses are dangerous, mapped forms of public ones are safe.
C10_MappedVerdictIsEmbeddedVerdict ==
  pc = "classified" =>
    \A o \in OracleQuads :
      ip_str = MappedLiteral(o) => verdict = _is_ip_private_or_reserved(DottedQuad(o))

\* C10's case where it holds: the mapped form of a loopback address is dangerous
C10_Witness ==
  /\ pc = "classified"
  /\ ip_str = "::ffff:127.0.0.1"
  /\ verdict

(***************************************************************************)
(* The properties of the decoder and of the blocklist.                     *)
(***************************************************************************)
\* every obfuscated spelling, with the dotted quad of the address it spells
SpelledAddresses ==
  UNION { { <<s, DottedQuad(o)>> : s \in ObfuscatedSpellings(o) } : o \in DecoderQuads }

\* C11: _parse_obfuscated_ip decodes every recognized spelling of an
\* address (decimal integer, 0x hex integer in either letter case, octal
\* integer with its leading zero, four dotted parts with hex or octal
\* octets) to the canonical dotted quad of that address; a token whose value
\* is outside 0..0xFFFFFFFF, or one of whose octets is outside 0..255, gives
\* no result; and every result is four decimal octets, each in 0..255.
C11_DecodesToCanonicalQuad ==
  pc = "decoded" =>
    /\ \A e \in SpelledAddresses : hostname = e[1] => decoder_result = e[2]
    /\ hostname \in OutOfRangeTokens => decoder_result = None
    /\ decoder_result # None => IPv4Address(decoder_result) # NoAddr

\* the octal integer spelling of 127.0.0.1 has been decoded
C11_Witness ==
  /\ pc = "decoded"
  /\ hostname = "017700000001"
  /\ hostname \in ObfuscatedSpellings(<<127, 0, 0, 1>>)
  /\ decoder_result = "127.0.0.1"

\* every character of s is one of chars
AllIn(s, chars) == \A i \in 1..Len(s) : Ch(s, i) \in chars

\* part is a number written with 0x and hex digits
HexNumeral(part) ==
  /\ Len(part) > 2
  /\ lower(SubSeq(part, 1, 2)) = "0x"
  /\ AllIn(SubSeq(part, 3, Len(part)), HexChars)

\* part is a number written with decimal digits, with or without a sign
DecimalNumeral(part) ==
  \/ Len(part) > 0 /\ AllIn(part, DigitChars)
  \/ /\ Len(part) > 1
     /\ Ch(part, 1) \in { "+", "-" }
     /\ AllIn(SubSeq(part, 2, Len(part)), DigitChars)

\* part carries the mark of an obfuscated octet: 0x, or a leading zero
MarkedNumeral(part) ==
  \/ HexNumeral(part)
  \/ Len(part) > 1 /\ Ch(part, 1) = "0" /\ AllIn(part, DigitChars)

\* four dotted numbers, one of them marked
DottedNumerals(parts) ==
  /\ Len(parts) = 4
  /\ \A i \in 1..4 : HexNumeral(strip(parts[i])) \/ DecimalNumeral(strip(parts[i]))
  /\ \E i \in 1..4 : MarkedNumeral(strip(parts[i]))

\* token is all digits, a 0x hex token without a dot, or four dotted numbers
\* one of which is marked
RecognizedToken(token) ==
  \/ Len(token) > 0 /\ AllIn(token, DigitChars)
  \/ HexNumeral(token)
  \/ DottedNumerals(split(token, "."))

\* C12: _parse_obfuscated_ip has no false positives: it gives no result for
\* the empty string, for a host name with a label that is not a number, and
\* for an ordinary dotted IPv4 literal without leading zero or 0x; it gives
\* a result only for a token that is all digits, a 0x hex token without a
\* dot, or four dotted numbers at least one of which is hex or has a leading
\* zero.
C12_NoFalsePositives ==
  pc = "decoded" =>
    /\ hostname \in PlainNames \cup PlainQuads => decoder_result = None
    /\ decoder_result # None => RecognizedToken(strip(hostname))

\* an ordinary dotted quad and a host name with a hex-looking label were
\* given to the decoder, one at a time, and came back without result
C12_Witness ==
  /\ pc = "decoded"
  /\ hostname \in { "127.0.0.1", "0xcafe.com" }
  /\ decoder_result = None

\* token is all digits, more than one, the first a zero
LeadingZeroDigits(token) ==
  Len(token) > 1 /\ Ch(token, 1) = "0" /\ AllIn(token, DigitChars)

\* C13: an all-digit token with a leading zero is read as an octal 32-bit
\* integer only: the decoder's result for it is the dotted quad of its octal
\* value or no result, never the dotted quad of its decimal value.
C13_LeadingZeroIsOctalOnly ==
  pc = "decoded" /\ LeadingZeroDigits(strip(hostname)) =>
    decoder_result \in { None, QuadOfInt(IntOfDigits(strip(hostname), 8)) }

\* "089" is no octal number, and the decoder read it in decimal
C13_Witness ==
  /\ pc = "decoded"
  /\ hostname = "089"
  /\ IntOfDigits("089", 8) = ValueError
  /\ decoder_result = "0.0.0.89"

\* C14: _is_hostname_blocked is true exactly for the names that, in lower
\* case and without their trailing dots, are an entry of BLOCKED_HOSTNAMES
\* or end with a dot and an entry; a name that only contains an entry, or
\* starts with one, is not blocked.
C14_BlockedExactlyEntriesAndSubdomains ==
  pc = "blocked_or_not" =>
    /\ verdict = (hostname \in BlockedSpellings)
    /\ hostname \in NearMisses => ~verdict

\* a subdomain of an entry, in upper case and fully qualified, was blocked,
\* or a name that ends with an entry without the dot was not
C14_Witness ==
  /\ pc = "blocked_or_not"
  /\ \/ hostname = "SUB.METADATA.GOOGLE.INTERNAL." /\ verdict
     \/ hostname = "notlocalhost" /\ ~verdict

(***************************************************************************)
(* The properties of the transport's request and of the fetch as a whole.  *)
(***************************************************************************)
\* C15: SSRFSafeTransport.handle_async_request changes nothing of the
\* request but the connection host: a request whose host is a literal IP is
\* handed on as it is and the transport resolves nothing; otherwise the
\* request handed on has the method, scheme, userinfo, port, path and query,
\* stream, extensions and headers of the original, the Host header still
\* naming the host name, and the validated resolved address as its URL host,
\* which is the address connected to.
C15_OnlyTheConnectionHostChanges ==
  new_request # NoRequest =>
    /\ IF ip_address(hostname) # NoAddr
       THEN new_request = request /\ getaddrinfo_calls.transport = 0
       ELSE /\ [new_request EXCEPT !.url.host = request.url.host] = request
            /\ new_request.url.host = resolved_ip
            /\ request.url.host = hostname
            /\ startswith(new_request.headers.Host, hostname)
            /\ getaddrinfo_calls.transport = 1
            /\ ~ALLOW_PRIVATE_IPS => ~_is_ip_private_or_reserved(resolved_ip)
    /\ connects # <<>> => connects = << new_request.url.host >>

\* a request for a name with a port and userinfo was rewritten to the
\* resolved address and sent, its Host header naming the name and the port
C15_Witness ==
  /\ pc = "done"
  /\ url = "http://admin@example.com:80/latest/meta-data/?a=1#top"
  /\ new_request # NoRequest
  /\ request.url.host = "example.com"
  /\ new_request.url.host = "2606:2800:220:1::1"
  /\ new_request.url.userinfo = "admin"
  /\ new_request.url.raw_path = "/latest/meta-data/?a=1"
  /\ new_request.headers.Host = "example.com"
  /\ connects = << "2606:2800:220:1::1" >>

\* the response is HTML as the spec has it: <html in the first 100
\* characters of its body, a content type that names text/html, or none
HtmlResponse ==
  response.text \in HtmlBodies \/ response.content_type \in HtmlContentTypes

\* C20: fetch_url puts every response it received into exactly one class:
\* a status of 400 or more raises the fetch-failed error and nothing is
\* returned; otherwise an HTML response with force_raw false returns the
\* extracted content with an empty prefix, and every other response, also
\* an HTML one with force_raw true, returns the body as it is with a prefix
\* that is not empty.
C20_ResponseClassified ==
  pc = "done" /\ response # NoResponse =>
    IF response.status >= 400
    THEN error = FetchRaises("Failed to fetch - status code") /\ result = NoResult
    ELSE /\ error = NoError
         /\ result.returned
         /\ IF HtmlResponse /\ ~force_raw
            THEN /\ result.content \in extract_content_from_html(response.text)
                 /\ result.prefix = ""
            ELSE /\ result.content = response.text
                 /\ result.prefix # ""

\* an HTML page was asked for raw and came back as it was, with the prefix
C20_Witness ==
  /\ pc = "done"
  /\ force_raw
  /\ response = Response(200, "text/html", "<html><body>page</body></html>")
  /\ result.returned
  /\ result.content = "<html><body>page</body></html>"
  /\ result.prefix # ""

\* the response is a redirect
Redirected == response # NoResponse /\ response.status \in 300..399

\* C16: neither fetch_url nor check_may_autonomously_fetch_url follows a
\* redirect: a call connects at most once, also after a 3xx response; what
\* it connects to is the host of the request for the URL that
\* validate_url_for_ssrf accepted earlier in the same call; and a call that
\* ended with a 3xx response made its one connection and no other.
C16_NoRedirectFollowed ==
  /\ Len(connects) <= 1
  /\ connects # <<>> =>
       /\ preflight # "none"
       /\ parsed = urlparse(url)
       /\ request = Request(url, parsed)
       /\ connects[1] = new_request.url.host
  /\ Redirected => connects = << new_request.url.host >>
  /\ pc = "done" /\ Redirected =>
       IF call = "fetch_url" THEN result.returned /\ error = NoError
       ELSE result = NoResult

\* the robots.txt check got a redirect to the metadata address for a public
\* host's robots.txt, and ended there, connected once to that host
C16_Witness ==
  /\ pc = "done"
  /\ call = "check_may_autonomously_fetch_url"
  /\ url = "http://example.com/robots.txt"
  /\ Redirected
  /\ response.text = "Moved: http://169.254.169.254/latest/meta-data/"
  /\ connects = << "93.184.216.34" >>

\* C17: fetch_url makes at most one attempt in a call: it validates once,
\* each resolver is asked at most once, it connects at most once; and when
\* the attempt fails the call ends with an error and returns nothing, a
\* timeout ending it with the fetch failure of code INTERNAL_ERROR.
C17_AtMostOneAttempt ==
  /\ Len(connects) <= 1
  /\ getaddrinfo_calls.validator <= 1
  /\ getaddrinfo_calls.transport <= 1
  /\ getaddrinfo_calls.connection = 0
  /\ \A i, j \in 1..Len(checks) : checks[i] = checks[j] => i = j
  /\ exc # NoExc => response = NoResponse /\ result = NoResult
  /\ pc = "done" /\ exc # NoExc =>
       /\ error # NoError
       /\ exc.type = "httpx.TimeoutException" =>
            error = McpError("fetch_url", INTERNAL_ERROR, "Failed to fetch")
       /\ exc.type # "McpError" => Len(connects) = 1

\* the one attempt of a call timed out, and the call ended with the fetch
\* failure, after one validation, two resolutions and one connection
C17_Witness ==
  /\ pc = "done"
  /\ exc.type = "httpx.TimeoutException"
  /\ error = McpError("fetch_url", INTERNAL_ERROR, "Failed to fetch")
  /\ result = NoResult
  /\ Len(connects) = 1
  /\ getaddrinfo_calls.validator = 1
  /\ getaddrinfo_calls.transport = 1

\* the host is a plain name: not on the allowlist, no obfuscated address,
\* no IP literal
PlainHostname ==
  /\ ~Allowlisted
  /\ _parse_obfuscated_ip(hostname) = None
  /\ ip_address(hostname) = NoAddr

\* C18, as the code has it: a fetch_url call that obtains a response has
\* made exactly one connection and at most two resolutions, the validator's
\* and the transport's, neither repeated and the real transport making
\* none; both are made exactly when the host is a plain name; for an IP
\* literal neither is made, and for an obfuscated-IP token or an
\* allowlisted name only the transport's.
C18_ResolutionsByKindOfHost ==
  response # NoResponse =>
    /\ Len(connects) = 1
    /\ getaddrinfo_calls.connection = 0
    /\ getaddrinfo_calls.validator = (IF PlainHostname THEN 1 ELSE 0)
    /\ getaddrinfo_calls.transport = (IF ip_address(hostname) # NoAddr THEN 0 ELSE 1)
    /\ PlainHostname <=> preflight = "dns"

\* a plain name was resolved twice, the validator's answer public and the
\* transport's first address another one, and the response came from there
C18_Witness ==
  /\ ALLOW_PRIVATE_IPS
  /\ response # NoResponse
  /\ hostname = "example.com"
  /\ preflight = "dns"
  /\ preflight_public
  /\ resolved_ip = "10.0.0.5"
  /\ connects = << "10.0.0.5" >>
  /\ getaddrinfo_calls.validator = 1
  /\ getaddrinfo_calls.transport = 1

\* C18 as stated: every fetch_url call that obtains a response has made
\* exactly two resolutions, one in the validator and one in the transport,
\* and exactly one connection, whatever kind of host was accepted.
C18_AsStated ==
  response # NoResponse =>
    /\ getaddrinfo_calls.validator = 1
    /\ getaddrinfo_calls.transport = 1
    /\ Len(connects) = 1

\* what the call with the frame f came to follows from the answers f holds
\* itself: the validator's verdict from its own resolved addresses, the
\* address connected to from its own transport's answer, a result from its
\* own response
OwnOutcome(f) ==
  /\ f.preflight = "dns" =>
       \/ ALLOW_PRIVATE_IPS
       \/ /\ f.preflight_public
          /\ \A ip \in f.resolved_ips : ~_is_ip_private_or_reserved(ip)
  /\ (/\ ~ALLOW_PRIVATE_IPS
      /\ f.checks = CheckOrder
      /\ f.getaddrinfo_calls.failed # "validator"
      /\ \E ip \in f.resolved_ips : _is_ip_private_or_reserved(ip)) =>
       /\ f.pc = "done"
       /\ f.error = McpError("validate_url_for_ssrf", INVALID_PARAMS,
                             "Hostname resolves to private/internal IP address")
       /\ f.connects = <<>>
       /\ f.response = NoResponse
  /\ f.resolved_ip # None /\ f.target # None =>
       /\ f.target = f.resolved_ip
       /\ ALLOW_PRIVATE_IPS \/ ~_is_ip_private_or_reserved(f.resolved_ip)
  /\ f.connects # <<>> =>
       /\ f.connects = << f.target >>
       /\ f.resolved_ip = None => f.target = f.hostname
  /\ f.result.returned =>
       /\ f.response # NoResponse
       /\ f.connects # <<>>
       /\ f.error = NoError

\* C19: fetches are independent: each of two fetch_url calls, run one after
\* the other or interleaved at their awaits, comes to what its own DNS and
\* HTTP answers give, whatever the other call was answered (a call whose own
\* resolution shows a private address is refused, even when the other call
\* fetched the same URL); a step of one call leaves the other call's frame as
\* it is, a call starts from fresh locals and resumes with the locals it was
\* suspended with; ALLOW_PRIVATE_IPS and ALLOWED_PRIVATE_HOSTS never change.
C19_FetchesIndependent ==
  /\ [](OwnOutcome(Frame) /\ (other # NoFrame => OwnOutcome(other)))
  /\ [][/\ config' = config
        /\ other' # other =>
             /\ other' = Frame
             /\ IF other = NoFrame THEN \E u \in CallUrls : Frame' = FreshFrame(u)
                ELSE Frame' = other]_vars

\* the earlier call fetched the URL from a public address; the name has
\* turned private since, and the next call for the same URL is refused
C19_Witness ==
  /\ ~ALLOW_PRIVATE_IPS
  /\ other # NoFrame
  /\ other.pc = "done"
  /\ other.url = "http://example.com/"
  /\ other.preflight = "dns"
  /\ other.preflight_public
  /\ other.connects = << "93.184.216.34" >>
  /\ other.result.returned
  /\ pc = "done"
  /\ url = other.url
  /\ "10.0.0.5" \in resolved_ips
  /\ error = McpError("validate_url_for_ssrf", INVALID_PARAMS,
                      "Hostname resolves to private/internal IP address")
  /\ connects = <<>>
  /\ result = NoResult

\* the three failures fetch_url reports for its GET
TlsVerificationFailed == FetchRaises("SSL Certificate verification failed")

ConnectFailed == FetchRaises("Failed to connect")

HttpStatusFailed == FetchRaises("Failed to fetch - status code")

CharAt(s, i) == SubSeq(s, i, i)

\* the content of the last reply
Body == received[Len(received)].content

\* the characters of the content the last reply should hold: those at
\* start_index + 1 .. start_index + max_length, as far as the content goes
Expected ==
  [ i \in 1..(IF Len(result.content) - arguments.start_index < arguments.max_length
              THEN Len(result.content) - arguments.start_index
              ELSE arguments.max_length)
      |-> CharAt(result.content, arguments.start_index + i) ]

\* the hint is due: the slice is full and content remains after it
HintDue ==
  /\ Len(Expected) = arguments.max_length
  /\ arguments.start_index + arguments.max_length < Len(result.content)

\* C22: call_tool's reply is the prefix, the header "Contents of <url>:" and
\* then the characters start_index .. start_index + max_length of the
\* content, at most max_length of them, followed by the hint naming
\* start_index + max_length exactly when the slice is full and content
\* remains after it; with start_index >= len(content) the reply holds the
\* "No more content available" text in place of content.
C22_ReplyIsTheSlice ==
  (pc = "replied" /\ handler = "call_tool") =>
    /\ reply.kind = "text"
    /\ reply.text = result.prefix \o "Contents of " \o url \o ":\n" \o Body
    /\ arguments.start_index >= Len(result.content) => Body = NoMoreContent
    /\ arguments.start_index < Len(result.content) =>
         /\ Len(Expected) \in 1..arguments.max_length
         /\ \A i \in 1..Len(Expected) : CharAt(Body, i) = Expected[i]
         /\ Len(Body) = Len(Expected)
              + (IF HintDue
                 THEN Len(TruncationHint(arguments.start_index + arguments.max_length))
                 ELSE 0)
         /\ HintDue =>
              SubSeq(Body, Len(Expected) + 1, Len(Body))
                = TruncationHint(arguments.start_index + arguments.max_length)
         /\ received[Len(received)].hint <=> HintDue

\* a slice from inside the content, full, with content left: the reply ends
\* with the hint naming 5
C22_Witness ==
  /\ pc = "replied"
  /\ result.content = "abcdefg"
  /\ result.prefix # ""
  /\ arguments.start_index = 2
  /\ arguments.max_length = 3
  /\ Body = "cde" \o TruncationHint(5)
  /\ str(5) = "5"

\* the part of a received reply that is content: what precedes the hint
SliceOf(r) ==
  SubSeq(r.content, 1,
         Len(r.content) - (IF r.hint THEN Len(TruncationHint(r.next_start)) ELSE 0))

\* the slices of the first n replies, joined
RECURSIVE Joined(_)
Joined(n) == IF n = 0 THEN "" ELSE Joined(n - 1) \o SliceOf(received[n])

\* ceil(L / max_length)
CallsNeeded == (Len(result.content) + arguments.max_length - 1) \div arguments.max_length

\* the client began at start_index 0 on a content that is not empty
Paginating ==
  /\ Len(result.content) > 0
  /\ received # <<>>
  /\ received[1].start_index = 0

\* the last reply has come and carries no hint
LastPage == pc = "replied" /\ ~received[Len(received)].hint

\* C28: pagination is complete and ends.  On an unchanged content of length
\* L > 0, with max_length fixed, a client that starts at start_index 0 and
\* follows each hint gets slices that are contiguous and do not overlap (the
\* k-th starts where the k-1 before it end), every hint names a start_index
\* below L, the reply without hint is the ceil(L / max_length)-th, and the
\* slices joined are the whole content; such a reply always comes.
C28_PaginationCompletes ==
  /\ [](Paginating =>
          /\ Len(received) <= CallsNeeded
          /\ \A k \in 1..Len(received) :
               /\ received[k].start_index = Len(Joined(k - 1))
               /\ received[k].content # NoMoreContent
               /\ Len(SliceOf(received[k])) \in 1..arguments.max_length
               /\ received[k].hint =>
                    /\ received[k].next_start < Len(result.content)
                    /\ received[k].next_start = Len(Joined(k))
               /\ k < Len(received) => received[k].hint
          /\ LastPage =>
               /\ Len(received) = CallsNeeded
               /\ Joined(Len(received)) = result.content)
  /\ <>LastPage

\* seven characters in pages of three: the third reply is the last, and the
\* three slices are the content
C28_Witness ==
  /\ Paginating
  /\ LastPage
  /\ result.content = "abcdefg"
  /\ arguments.max_length = 3
  /\ Len(received) = 3
  /\ SliceOf(received[1]) = "abc"
  /\ SliceOf(received[2]) = "def"
  /\ SliceOf(received[3]) = "g"

\* C23: the SSL_VERIFY loaded at import from MCP_FETCH_SSL_VERIFY is false
\* exactly when the variable is set to "false" in some mix of upper and lower
\* case; unset, empty or any other value leaves verification on.
C23_OnlyFalseDisables ==
  pc # "import" =>
    /\ SSL_VERIFY \in BOOLEAN
    /\ ~SSL_VERIFY <=> (environ.set /\ environ.value \in FalseSpellings)
    /\ (~environ.set \/ environ.value \in { "", "0", "1", "no", "yes", "invalid", "true" })
         => SSL_VERIFY

\* MCP_FETCH_SSL_VERIFY=FaLsE was read, and verification is off
C23_Witness ==
  /\ pc = "imported"
  /\ environ = Env("FaLsE")
  /\ SSL_VERIFY = FALSE

\* C24 as stated: with MCP_FETCH_SSL_VERIFY "false", a fetch_url call that
\* has sent its request has constructed httpx.AsyncClient exactly once, with
\* verify=False among the keyword arguments of the client, and the fetch
\* meets no certificate failure.
C24_ClientBuiltWithVerifyFalse ==
  (pc # "import" /\ environ = Env("false") /\ connects # <<>>) =>
    /\ Len(clients) = 1
    /\ "verify" \in DOMAIN clients[1]
    /\ clients[1].verify = FALSE
    /\ exc \notin CertificateFailures

\* what the code does instead: the client is built once with the transport
\* as its only argument, verify=False went to the wrapped transport, and the
\* page came without a certificate failure
C24_Witness ==
  /\ pc = "done"
  /\ environ = Env("false")
  /\ SSL_VERIFY = FALSE
  /\ url = "https://self-signed.example.com"
  /\ clients = << [transport |-> "SSRFSafeTransport"] >>
  /\ transports = << [verify |-> FALSE] >>
  /\ result.returned
  /\ exc = NoExc

\* the messages of the errors raised for an address classified dangerous
ClassificationMessages ==
  { "Access to obfuscated private IP address is blocked",
    "Access to private/internal IP address is blocked",
    "Hostname resolves to private/internal IP address",
    "DNS rebinding protection" }

\* the call is past the blocklist check, for an http(s) URL with a host
PastBlocklist ==
  /\ parsed.ok
  /\ parsed.scheme \in { "http", "https" }
  /\ hostname # None
  /\ Len(checks) >= 3 \/ pc \notin ValidatorPcs \cup { "idle" }

\* C25: ALLOW_PRIVATE_IPS lifts the checks that classify addresses (decoder,
\* literal IP, DNS answer, the transport's own) and nothing else: whatever
\* its value, a host that matches BLOCKED_HOSTNAMES and is not on the
\* allowlist is refused by the blocklist check, before any resolution or
\* connection, and such a host is admitted only by the allowlist; with
\* ALLOW_PRIVATE_IPS true no call ends with an address-classification error,
\* so http://127.0.0.1/ passes while http://localhost/ stays refused.
C25_BlocklistNotLifted ==
  /\ (PastBlocklist /\ ~Allowlisted /\ _is_hostname_blocked(hostname)) =>
       /\ pc = "done"
       /\ preflight = "none"
       /\ error = McpError("validate_url_for_ssrf", INVALID_PARAMS,
                           "Access to hostname is blocked")
       /\ getaddrinfo_calls = NoCalls
       /\ connects = <<>>
  /\ (PastBlocklist /\ hostname # None /\ _is_hostname_blocked(hostname)
        /\ preflight # "none") =>
       Allowlisted /\ preflight = "whitelist"
  /\ (ALLOW_PRIVATE_IPS /\ error # NoError) => error.message \notin ClassificationMessages
  /\ (ALLOW_PRIVATE_IPS /\ PastBlocklist /\ hostname = "127.0.0.1"
        /\ pc \notin ValidatorPcs) => preflight \in { "whitelist", "literal" }

\* private addresses are allowed, and still http://localhost/ is refused by
\* the blocklist
C25_Witness ==
  /\ ALLOW_PRIVATE_IPS
  /\ ALLOWED_PRIVATE_HOSTS = {}
  /\ url = "http://localhost/"
  /\ pc = "done"
  /\ checks = << "scheme", "whitelist", "blocklist" >>
  /\ error = McpError("validate_url_for_ssrf", INVALID_PARAMS,
                      "Access to hostname is blocked")
  /\ connects = <<>>

\* C26: validate_url_for_ssrf accepts a hostname that reaches the DNS step
\* and is not allowlisted only when at least one address was resolved and
\* classified: it rejects a resolver answer without addresses, as
\* SSRFSafeTransport does with "no addresses found".
C26_EmptyAnswerRejected ==
  (pc = "validated" /\ preflight = "dns") =>
    /\ resolved_ips # {}
    /\ ALLOW_PRIVATE_IPS \/ \A ip \in resolved_ips : ~_is_ip_private_or_reserved(ip)

\* the resolver answered the validator with no address and no error, and
\* the validator returned: the URL is accepted with nothing classified
C26_Witness ==
  /\ ~ALLOW_PRIVATE_IPS
  /\ ALLOWED_PRIVATE_HOSTS = {}
  /\ url = "http://example.com/"
  /\ pc = "validated"
  /\ preflight = "dns"
  /\ checks = CheckOrder
  /\ resolved_ips = {}
  /\ getaddrinfo_calls = [NoCalls EXCEPT !.validator = 1]
  /\ error = NoError

\* C29: the decoder and literal-IP checks treat a URL host with a trailing
\* dot, in either letter case, as the allowlist and blocklist checks do: when
\* http://h/ is refused for a dangerous IP literal or obfuscated token h
\* (ALLOW_PRIVATE_IPS false), http://h./ is refused by the same check with
\* the same error, and the validator has resolved nothing for either.
C29_DottedHostSameStep ==
  (/\ other # NoFrame
   /\ ~ALLOW_PRIVATE_IPS
   /\ other.error # NoError
   /\ pc \notin ValidatorPcs) =>
    /\ url = Dotted(other.url)
    /\ pc = "done"
    /\ error = other.error
    /\ checks = other.checks
    /\ getaddrinfo_calls.validator = 0
    /\ other.getaddrinfo_calls.validator = 0

\* http://10.0.0.5/ was refused by the literal-IP check without a
\* resolution; http://10.0.0.5./ passed the decoder and the literal check,
\* was resolved, and was refused at the DNS step
C29_Witness ==
  /\ ~ALLOW_PRIVATE_IPS
  /\ ALLOWED_PRIVATE_HOSTS = {}
  /\ other # NoFrame
  /\ other.url = "http://10.0.0.5/"
  /\ other.checks = << "scheme", "whitelist", "blocklist", "decoder", "literal" >>
  /\ other.error.message = "Access to private/internal IP address is blocked"
  /\ url = "http://10.0.0.5./"
  /\ hostname = "10.0.0.5."
  /\ checks = CheckOrder
  /\ getaddrinfo_calls.validator = 1
  /\ resolved_ips = { "10.0.0.5" }
  /\ pc = "done"
  /\ error.message = "Hostname resolves to private/internal IP address"

\* the target of the tool call: url = str(args.url)
TargetUrl == AnyUrlStr(arguments.url)

\* the frame f has used the network as an HTTP client
ClientIo(f) ==
  \/ f.connects # <<>>
  \/ f.request # NoRequest
  \/ f.getaddrinfo_calls.transport > 0
  \/ f.getaddrinfo_calls.connection > 0

\* the robots.txt check of the target that returned without raising
RobotsPassed(f) ==
  /\ f # NoFrame
  /\ f.call = "check_may_autonomously_fetch_url"
  /\ f.pc = "done"
  /\ f.error = NoError
  /\ f.url = get_robots_txt_url(TargetUrl)
  /\ f.preflight # "none"
  /\ f.connects # <<>>
  /\ f.response # NoResponse
  /\ f.response.status \notin { 401, 403 }

\* the steps of a call with the robots.txt check, in every state
ToolOrder ==
  (handler = "call_tool" /\ ~ignore_robots_txt) =>
    /\ ~FetchValid(arguments) =>
         /\ call = "none" /\ other = NoFrame /\ ~ClientIo(Frame)
         /\ getaddrinfo_calls = NoCalls /\ clients = <<>>
         /\ pc = "replied" =>
              reply = ToolRaises(McpError("call_tool", INVALID_PARAMS, "str(e)"))
    /\ call = "check_may_autonomously_fetch_url" =>
         /\ other = NoFrame
         /\ url = get_robots_txt_url(TargetUrl)
         /\ urlparse(url).scheme = urlparse(TargetUrl).scheme
         /\ urlparse(url).netloc = urlparse(TargetUrl).netloc
         /\ ClientIo(Frame) => preflight # "none"
         /\ getaddrinfo_calls.validator > 0 => (\E i \in 1..Len(checks) : checks[i] = "scheme")
         /\ pc = "replied" => error # NoError /\ reply = ToolRaises(error)
    /\ call = "fetch_url" =>
         /\ RobotsPassed(other)
         /\ url = TargetUrl
         /\ ClientIo(Frame) => preflight # "none"
         /\ reply.kind = "text" => result.returned /\ response.status < 400
         /\ reply.kind = "raised" => error # NoError /\ reply = ToolRaises(error)
    /\ reply.kind = "text" => call = "fetch_url" /\ pc = "replied"
    /\ \A i \in 1..Len(clients) : clients[i].transport = "SSRFSafeTransport"
    /\ Len(clients) > 0 => preflight # "none" \/ RobotsPassed(other)

\* C27: with ignore_robots_txt false, call_tool validates its arguments,
\* validates the robots.txt URL of the target's scheme and authority, gets it
\* through SSRFSafeTransport, validates the target, gets it, and truncates,
\* in this order; nothing is sent before the first validation, and once a
\* step has raised the handler does nothing more, so the target is not
\* requested
C27_StepsInOrder == []ToolOrder /\ [][pc # "replied"]_vars

\* the whole sequence ran: robots.txt was fetched and allowed the page, the
\* page was fetched and the reply holds its window
C27_Witness ==
  /\ handler = "call_tool"
  /\ ~ignore_robots_txt
  /\ pc = "replied"
  /\ reply.kind = "text"
  /\ other # NoFrame
  /\ other.url = "http://example.com/robots.txt"
  /\ other.connects # <<>>
  /\ url = "http://example.com/page"
  /\ connects # <<>>
  /\ Len(clients) = 2


\* the prompt was asked for without a url
UrlMissing == ~arguments.given \/ "url" \notin DOMAIN arguments

\* C30: get_prompt fetches through fetch_url only: the URL is validated
\* before the client touches the network, the client's transport is
\* SSRFSafeTransport, and no robots.txt check runs; an McpError of the fetch
\* becomes the prompt result 'Failed to fetch <url>' with the error's text
\* and does not leave the handler; without a url the handler raises
\* INVALID_PARAMS
C30_PromptFetchesAndReports ==
  handler = "get_prompt" =>
    /\ call \in { "none", "fetch_url" }
    /\ other = NoFrame
    /\ \A i \in 1..Len(clients) : clients[i].transport = "SSRFSafeTransport"
    /\ UrlMissing =>
         /\ call = "none" /\ ~ClientIo(Frame) /\ getaddrinfo_calls = NoCalls
         /\ pc = "replied" =>
              reply = ToolRaises(McpError("get_prompt", INVALID_PARAMS, "URL is required"))
    /\ call = "fetch_url" =>
         /\ url = arguments.url
         /\ ClientIo(Frame) => preflight # "none"
         /\ Len(clients) > 0 => preflight # "none"
         /\ error # NoError => error.type = "McpError"
         /\ (pc = "replied" /\ error # NoError) =>
              reply = GetPromptResult("Failed to fetch " \o url, error.message)
         /\ (pc = "replied" /\ error = NoError) =>
              /\ result.returned
              /\ reply = GetPromptResult("Contents of " \o url,
                                         result.prefix \o result.content)
    /\ reply.kind = "raised" => UrlMissing

\* a fetch that the transport aborted at connection time, reported as a
\* prompt result
C30_Witness ==
  /\ handler = "get_prompt"
  /\ pc = "replied"
  /\ url = "http://Example.com/page"
  /\ error = McpError("SSRFSafeTransport", INVALID_PARAMS, "DNS rebinding protection")
  /\ reply.kind = "prompt"
  /\ reply.description = "Failed to fetch http://Example.com/page"

====
